---- MODULE Spec2Model ----
(***************************************************************************)
(* PDF-Pile: the annotation viewer with undo history (PdfViewPage), its    *)
(* selection-to-annotation mapping, annotation store, history stack, mode  *)
(* and note popup.  One action per event handler of the component.         *)
(***************************************************************************)
EXTENDS Integers, Sequences, FiniteSets, TLC

(***************************************************************************)
(* Bounds of the model (not program constants).                            *)
(***************************************************************************)
\* Spec: number of events handled in one run.
MaxSteps == 6
\* SpecDeep: collection-changing mutations in one session.
MaxDeepMutations == 60
\* SpecDeep: popup edits (note commit, clear-note, delete) before the selections.
MaxDeepEdits == 1
\* SpecMapping: client rects of one selection.
MaxRects == 3
\* SpecSave: events handled in one run (the clock's ticks not counted).
MaxSaveSteps == 6
\* Requests the server answers in a run of SpecServer.
MaxRequests == 2
\* Events in a run of SpecVariant.
MaxVariantSteps == 4
\* User events in a run of SpecNet.
MaxNetSteps == 5
\* User events in a run of SpecSettle.
MaxSettleSteps == 4
\* Events in a run of SpecKeys.
MaxKeySteps == 5
\* Resolution of the clock: time passes in ticks of 1/TicksPerSecond second.
TicksPerSecond == 2

(***************************************************************************)
(* Program constants.                                                      *)
(***************************************************************************)
HISTORY_LIMIT == 50

\* The quiet period of the autosave timer, in milliseconds.
AUTOSAVE_DELAY == 1000

\* The time a status message stays, in milliseconds.
MESSAGE_DELAY == 3000

\* JavaScript null (currentPdf, activeAnnotationId, popupPosition).
NULL == [null |-> TRUE]

(***************************************************************************)
(* Strings are sequences of characters; a note is either undefined or a    *)
(* string (Annotation.note?: string).                                      *)
(***************************************************************************)
Whitespace == {" "}

undefined == [defined |-> FALSE, value |-> <<>>]

Str(s) == [defined |-> TRUE, value |-> s]

RECURSIVE trimStart(_)
trimStart(s) ==
    IF s # <<>> /\ Head(s) \in Whitespace THEN trimStart(Tail(s)) ELSE s

RECURSIVE trimEnd(_)
trimEnd(s) ==
    IF s # <<>> /\ s[Len(s)] \in Whitespace
    THEN trimEnd(SubSeq(s, 1, Len(s) - 1))
    ELSE s

\* String.prototype.trim
trim(s) == trimEnd(trimStart(s))

\* JavaScript truthiness of an optional string: undefined and "" are falsy.
truthy(n) == n.defined /\ n.value # <<>>

\* s || undefined
orUndefined(s) == IF s # <<>> THEN Str(s) ELSE undefined

\* n ?? ''
orEmpty(n) == IF n.defined THEN n.value ELSE <<>>

(***************************************************************************)
(* Exact fractions for the JavaScript number divisions of the geometry.    *)
(***************************************************************************)
Abs(n) == IF n < 0 THEN -n ELSE n

RECURSIVE GCD(_, _)
GCD(a, b) == IF b = 0 THEN a ELSE GCD(b, a % b)

\* n / d, d > 0, in lowest terms.
Frac(n, d) ==
    LET g == GCD(Abs(n), d)
    IN  IF n = 0 THEN [num |-> 0, den |-> 1] ELSE [num |-> n \div g, den |-> d \div g]

(***************************************************************************)
(* State of the component.                                                 *)
(***************************************************************************)
VARIABLES
    currentPdf,          \* useState<PDF | null>: NULL or [id, annotations]
    annotationMode,      \* 'highlight' | 'underline' | 'cursor'
    activeAnnotationId,  \* useState<string | null>
    noteDraft,           \* useState('')
    popupPosition,       \* useState<{x, y} | null>
    historyRef,          \* useRef<Annotation[][]>: historyRef.current
    canUndo,             \* useState(false)
    strictDev,           \* the build: React.StrictMode re-runs updaters in development
    nextId,              \* uuidv4(): the next fresh id
    skipNextAutoSaveRef, \* useRef(true): skipNextAutoSaveRef.current
    autoSaveTimerRef,    \* useRef<number | null>: the handle of the armed timer
    timers,              \* the browser's pending timeouts of the autosave effect
    message,             \* useState(''): the status text in the toolbar
    messageTimers,       \* pending timeouts that clear the message: ticks left, in arming order
    requests,            \* PUT requests sent and not yet settled, in sending order
    db,                  \* the server's db.json: db.pdfs
    mounted,             \* the view is mounted: its effects have not been cleaned up
    scroll,              \* the pages element (viewerPagesRef.current) and the saved scroll record
    \* Observation variables (not program state).
    log,                 \* the collection before each mutation since the load
    undos,               \* handleUndo calls since the last mutation or load
    clean,               \* no mutation has followed an Undo since the load
    edits,               \* popup mutations since the load
    lastOp,              \* the handler that ran last and the branch it took
    lastInput,           \* the selection the last pointer-up found (NULL otherwise)
    sinceChange,         \* ticks since the last change after the load (-1: none yet)
    puts,                \* the PUT requests issued so far, in order
    steps                \* events handled

vars == <<currentPdf, annotationMode, activeAnnotationId, noteDraft, popupPosition,
          historyRef, canUndo, strictDev, nextId,
          skipNextAutoSaveRef, autoSaveTimerRef, timers,
          message, messageTimers, requests, db, mounted, scroll,
          log, undos, clean, edits, lastOp, lastInput, sinceChange, puts, steps>>

popupVars == <<activeAnnotationId, noteDraft, popupPosition>>

ghostVars == <<log, undos, clean, edits>>

saveVars == <<skipNextAutoSaveRef, autoSaveTimerRef, timers>>

netVars == <<message, messageTimers, requests, db>>

\* currentPdf?.annotations, the live collection ([] while nothing is loaded).
annotations == IF currentPdf = NULL THEN <<>> ELSE currentPdf.annotations

(***************************************************************************)
(* Annotations and the history stack.                                      *)
(***************************************************************************)
\* An id is a string in the program; uuidv4() gives one never seen before.
Id(n) == [uuid |-> n]

Annotation(id, type, pageIndex, rects, note) ==
    [id |-> id, type |-> type, pageIndex |-> pageIndex, rects |-> rects, note |-> note]

\* { ...rect }
cloneRect(rect) ==
    [x |-> rect.x, y |-> rect.y, width |-> rect.width, height |-> rect.height]

\* { ...annotation, rects: annotation.rects.map((rect) => ({ ...rect })) }
cloneAnnotation(annotation) ==
    [id        |-> annotation.id,
     type      |-> annotation.type,
     pageIndex |-> annotation.pageIndex,
     note      |-> annotation.note,
     rects     |-> [j \in 1..Len(annotation.rects) |-> cloneRect(annotation.rects[j])]]

cloneAnnotations(as) == [i \in 1..Len(as) |-> cloneAnnotation(as[i])]

\* Mutant of pushHistorySnapshot: the snapshot misses the last annotation.
pushHistorySnapshot_DropsLast(history, as) ==
    LET pushed == Append(history, cloneAnnotations(SubSeq(as, 1, Len(as) - 1)))
    IN  IF Len(pushed) > HISTORY_LIMIT THEN Tail(pushed) ELSE pushed

\* Mutant of pushHistorySnapshot: the oldest entry is never dropped.
pushHistorySnapshot_NoShift(history, as) == Append(history, cloneAnnotations(as))

\* historyRef.current after pushHistorySnapshot(annotations): push, then drop the
\* oldest entry when the stack has grown past HISTORY_LIMIT.
pushHistorySnapshot(history, as) ==
    LET pushed == Append(history, cloneAnnotations(as))
    IN  IF Len(pushed) > HISTORY_LIMIT THEN Tail(pushed) ELSE pushed

\* A state updater that calls pushHistorySnapshot, run `runs` times by React on
\* the same previous state.
RECURSIVE pushRepeated(_, _, _)
pushRepeated(history, as, runs) ==
    IF runs = 0 THEN history
    ELSE pushRepeated(pushHistorySnapshot(history, as), as, runs - 1)

\* How often React runs a state updater function: once in a production build;
\* under React.StrictMode in a development build once or twice.
UpdaterRuns == IF strictDev THEN {1, 2} ELSE {1}

\* annotations.find(a => a.id === id); undefined when there is none.
findAnnotation(as, id) ==
    IF \E i \in 1..Len(as) : as[i].id = id
    THEN as[CHOOSE i \in 1..Len(as) :
                /\ as[i].id = id
                /\ \A j \in 1..(i - 1) : as[j].id # id]
    ELSE NULL

\* Mutant of withNote: the annotation is rebuilt without its rects.
withNote_DropsRects(as, id, note) ==
    [i \in 1..Len(as) |->
        IF as[i].id = id THEN [as[i] EXCEPT !.note = note, !.rects = <<>>] ELSE as[i]]

\* annotations.map(a => a.id === id ? { ...a, note } : a)
withNote(as, id, note) ==
    [i \in 1..Len(as) |->
        IF as[i].id = id THEN [as[i] EXCEPT !.note = note] ELSE as[i]]

\* annotations.filter(a => a.id !== id)
without(as, id) == SelectSeq(as, LAMBDA a : a.id # id)

(***************************************************************************)
(* Autosave: the effect that runs after every render in which currentPdf   *)
(* is a new object, and the timeout it arms.  A pending timeout is         *)
(* [handle, remaining, pdf]: the handle setTimeout returned, the ticks     *)
(* until it is due, and the document its callback's saveAnnotations closed *)
(* over.                                                                   *)
(***************************************************************************)
\* AUTOSAVE_DELAY in ticks.
delayTicks == (AUTOSAVE_DELAY * TicksPerSecond) \div 1000

Handle(n) == [timer |-> n]

\* window.setTimeout returns a handle that no pending timeout has.
freshHandle(pending) ==
    Handle(CHOOSE n \in 1..(Cardinality(pending) + 1) :
               /\ \A t \in pending : t.handle # Handle(n)
               /\ \A m \in 1..(n - 1) : \E t \in pending : t.handle = Handle(m))

\* window.clearTimeout(handle)
clearTimeout(pending, handle) == {t \in pending : t.handle # handle}

\* Mutant of autosaveEffect: the pending timeout is not cleared before the new
\* one is armed.
autosaveEffect_NoClear(skip, pdf) ==
    IF pdf = NULL
    THEN /\ skipNextAutoSaveRef' = skip
         /\ UNCHANGED <<autoSaveTimerRef, timers>>
    ELSE IF skip
    THEN /\ skipNextAutoSaveRef' = FALSE
         /\ UNCHANGED <<autoSaveTimerRef, timers>>
    ELSE LET handle == freshHandle(timers)
         IN  /\ timers' = timers \cup {[handle |-> handle, remaining |-> delayTicks, pdf |-> pdf]}
             /\ autoSaveTimerRef' = handle
             /\ skipNextAutoSaveRef' = skip

\* The autosave effect after a render with the new document `pdf`; `skip` is
\* skipNextAutoSaveRef.current when the effect starts.
autosaveEffect(skip, pdf) ==
    IF pdf = NULL
    THEN /\ skipNextAutoSaveRef' = skip
         /\ UNCHANGED <<autoSaveTimerRef, timers>>
    ELSE IF skip
    THEN /\ skipNextAutoSaveRef' = FALSE
         /\ UNCHANGED <<autoSaveTimerRef, timers>>
    ELSE LET cleared == IF autoSaveTimerRef # NULL
                        THEN clearTimeout(timers, autoSaveTimerRef)
                        ELSE timers
             handle  == freshHandle(cleared)
         IN  /\ timers' = cleared \cup {[handle |-> handle, remaining |-> delayTicks, pdf |-> pdf]}
             /\ autoSaveTimerRef' = handle
             /\ skipNextAutoSaveRef' = skip

\* Observation of a render with a new document object `pdf` after a handler
\* other than the load.
observeChange(pdf) ==
    /\ sinceChange' = IF pdf = NULL THEN sinceChange ELSE 0
    /\ UNCHANGED puts

(***************************************************************************)
(* The selection at pointer-up and its mapping to annotations              *)
(* (persistSelection).  A selection is what the handler reads from the     *)
(* DOM: window.getSelection(), its range, the range's client rects and the *)
(* page layers' bounding boxes, all in integer screen pixels.              *)
(***************************************************************************)
DOMRect(left, top, width, height) ==
    [left |-> left, top |-> top, width |-> width, height |-> height]

PageLayer(pageIndex, rect) == [pageIndex |-> pageIndex, rect |-> rect]

\* Mutant of nonDegenerate: no client rect is filtered out.
nonDegenerate_KeepsAll(clientRects) == clientRects

\* range.getClientRects() filtered to width > 0 && height > 0
nonDegenerate(clientRects) ==
    SelectSeq(clientRects, LAMBDA rect : rect.width > 0 /\ rect.height > 0)

\* The centre (left + width / 2, top + height / 2) lies in the page's box,
\* sides included; compared doubled to stay in the integers.
containsCenter(page, rect) ==
    /\ 2 * rect.left + rect.width >= 2 * page.rect.left
    /\ 2 * rect.left + rect.width <= 2 * (page.rect.left + page.rect.width)
    /\ 2 * rect.top + rect.height >= 2 * page.rect.top
    /\ 2 * rect.top + rect.height <= 2 * (page.rect.top + page.rect.height)

\* pageLayers.find(...): the first page layer, in document order, whose box
\* contains the rect's centre; NULL for undefined.
targetPage(pageLayers, rect) ==
    IF \E i \in 1..Len(pageLayers) : containsCenter(pageLayers[i], rect)
    THEN pageLayers[CHOOSE i \in 1..Len(pageLayers) :
                        /\ containsCenter(pageLayers[i], rect)
                        /\ \A j \in 1..(i - 1) : ~containsCenter(pageLayers[j], rect)]
    ELSE NULL

\* Mutant of relativeRect: the page's own offset is not subtracted.
relativeRect_NoOffset(page, rect) ==
    [x      |-> Frac(rect.left * 100, page.rect.width),
     y      |-> Frac(rect.top * 100, page.rect.height),
     width  |-> Frac(rect.width * 100, page.rect.width),
     height |-> Frac(rect.height * 100, page.rect.height)]

\* The rect in percent of its page's box.
relativeRect(page, rect) ==
    [x      |-> Frac((rect.left - page.rect.left) * 100, page.rect.width),
     y      |-> Frac((rect.top - page.rect.top) * 100, page.rect.height),
     width  |-> Frac(rect.width * 100, page.rect.width),
     height |-> Frac(rect.height * 100, page.rect.height)]

\* Mutant of groupedRects: a rect is pushed under every key, not only under its
\* target page's.
RECURSIVE groupedRects_AllPages(_, _, _)
groupedRects_AllPages(pageLayers, clientRects, pageIndex) ==
    IF clientRects = <<>> THEN <<>>
    ELSE LET rect == Head(clientRects)
             page == targetPage(pageLayers, rect)
             rest == groupedRects_AllPages(pageLayers, Tail(clientRects), pageIndex)
         IN  IF page # NULL
             THEN <<relativeRect(page, rect)>> \o rest
             ELSE rest

\* groupedRects[pageIndex]: the relative rects pushed for that page, in the
\* order of the client rects.
RECURSIVE groupedRects(_, _, _)
groupedRects(pageLayers, clientRects, pageIndex) ==
    IF clientRects = <<>> THEN <<>>
    ELSE LET rect == Head(clientRects)
             page == targetPage(pageLayers, rect)
             rest == groupedRects(pageLayers, Tail(clientRects), pageIndex)
         IN  IF page # NULL /\ page.pageIndex = pageIndex
             THEN <<relativeRect(page, rect)>> \o rest
             ELSE rest

\* The keys of groupedRects.
groupedPages(pageLayers, clientRects) ==
    {targetPage(pageLayers, clientRects[i]).pageIndex :
        i \in {k \in 1..Len(clientRects) : targetPage(pageLayers, clientRects[k]) # NULL}}

\* Object.entries of an object with integer keys lists them in ascending order.
RECURSIVE ascending(_)
ascending(S) ==
    IF S = {} THEN <<>>
    ELSE LET m == CHOOSE x \in S : \A y \in S : x <= y
         IN  <<m>> \o ascending(S \ {m})

\* newAnnotations: one annotation per key of groupedRects, ids from uuidv4().
newAnnotations(pageLayers, clientRects, mode, firstId) ==
    LET pages == ascending(groupedPages(pageLayers, clientRects))
    IN  [k \in 1..Len(pages) |->
            Annotation(Id(firstId + k - 1), mode, pages[k],
                       groupedRects(pageLayers, clientRects, pages[k]), undefined)]

\* Mutant of selectionOutcome: the three returns for an empty result are missing.
selectionOutcome_NoEmptyChecks(selection, mode) ==
    IF mode = "cursor" THEN "cursor"
    ELSE IF selection = NULL \/ selection.isCollapsed THEN "collapsed"
    ELSE IF ~selection.inTextLayer THEN "outside-text-layer"
    ELSE IF selection.rangeCount = 0 THEN "no-range"
    ELSE IF trim(selection.text) = <<>> THEN "blank-text"
    ELSE "create"

\* Mutant of selectionOutcome: the mode and isCollapsed checks are missing.
selectionOutcome_NoGuards(selection, mode) ==
    IF selection = NULL THEN "collapsed"
    ELSE IF ~selection.inTextLayer THEN "outside-text-layer"
    ELSE IF selection.rangeCount = 0 THEN "no-range"
    ELSE IF trim(selection.text) = <<>> /\ ~selection.isCollapsed THEN "blank-text"
    ELSE IF nonDegenerate(selection.clientRects) = <<>> THEN "no-rects"
    ELSE IF selection.pageLayers = <<>> THEN "no-page-layers"
    ELSE IF groupedPages(selection.pageLayers, nonDegenerate(selection.clientRects)) = {}
         THEN "no-annotations"
    ELSE "create"

\* The early returns of persistSelection before the state update: the branch
\* taken for a selection in a mode, "create" when annotations are made.
selectionOutcome(selection, mode) ==
    IF mode = "cursor" THEN "cursor"
    ELSE IF selection = NULL \/ selection.isCollapsed THEN "collapsed"
    ELSE IF ~selection.inTextLayer THEN "outside-text-layer"
    ELSE IF selection.rangeCount = 0 THEN "no-range"
    ELSE IF trim(selection.text) = <<>> THEN "blank-text"
    ELSE IF nonDegenerate(selection.clientRects) = <<>> THEN "no-rects"
    ELSE IF selection.pageLayers = <<>> THEN "no-page-layers"
    ELSE IF groupedPages(selection.pageLayers, nonDegenerate(selection.clientRects)) = {}
         THEN "no-annotations"
    ELSE "create"

(***************************************************************************)
(* Event handlers.  Each action is one handler run to completion together  *)
(* with the render that follows it; lastOp records the branch taken.       *)
(***************************************************************************)
Op(handler, branch) == [handler |-> handler, branch |-> branch]

\* Observation of a collection-changing mutation whose pre-state is `pre`.
observeMutation(pre) ==
    /\ log' = IF clean /\ undos = 0 THEN Append(log, pre) ELSE <<>>
    /\ clean' = (clean /\ undos = 0)
    /\ undos' = 0

\* The note popup is rendered: {activeAnnotationId && popupPosition && (...)}.
popupShown == activeAnnotationId # NULL /\ popupPosition # NULL

\* closeAnnotationPopup()
closeAnnotationPopup ==
    /\ activeAnnotationId' = NULL
    /\ popupPosition' = NULL
    /\ noteDraft' = <<>>

\* A load that sets the document and leaves the undo history as it was.
fetchPdfData_KeepsHistory(doc) ==
    /\ currentPdf' = doc
    /\ UNCHANGED <<historyRef, canUndo>>
    /\ log' = <<>>
    /\ undos' = 0
    /\ clean' = TRUE
    /\ edits' = 0
    /\ autosaveEffect(TRUE, doc)
    /\ sinceChange' = -1
    /\ UNCHANGED puts
    /\ lastOp' = Op("fetchPdfData", "loaded")
    /\ lastInput' = NULL
    /\ UNCHANGED <<annotationMode, popupVars, strictDev, netVars, nextId>>


\* fetchPdfData: the GET response `doc` arrives.
fetchPdfData(doc) ==
    /\ currentPdf' = doc
    /\ historyRef' = <<>>
    /\ canUndo' = FALSE
    /\ log' = <<>>
    /\ undos' = 0
    /\ clean' = TRUE
    /\ edits' = 0
    /\ autosaveEffect(TRUE, doc)
    /\ sinceChange' = -1
    /\ UNCHANGED puts
    /\ lastOp' = Op("fetchPdfData", "loaded")
    /\ lastInput' = NULL
    /\ UNCHANGED <<annotationMode, popupVars, strictDev, netVars, nextId>>

\* Toolbar button or mode shortcut.
setAnnotationMode(mode) ==
    /\ annotationMode' = mode
    /\ lastOp' = Op("setAnnotationMode", mode)
    /\ lastInput' = NULL
    /\ UNCHANGED <<currentPdf, saveVars, sinceChange, puts, popupVars, historyRef, canUndo, strictDev, netVars, nextId, ghostVars>>

\* mouseup on the document: persistSelection with the selection it finds; the
\* state updater that pushes the snapshot is run `runs` times.
persistSelection(selection, runs) ==
    LET outcome  == selectionOutcome(selection, annotationMode)
        created  == newAnnotations(selection.pageLayers, nonDegenerate(selection.clientRects),
                                   annotationMode, nextId)
    IN  IF outcome # "create"
        THEN /\ lastOp' = Op("persistSelection", outcome)
             /\ lastInput' = selection
             /\ UNCHANGED <<currentPdf, saveVars, sinceChange, puts, annotationMode, popupVars, historyRef, canUndo,
                            strictDev, netVars, nextId, ghostVars>>
        ELSE IF currentPdf = NULL
        THEN /\ nextId' = nextId + Len(created)
             /\ lastOp' = Op("persistSelection", "no-document")
             /\ lastInput' = selection
             /\ UNCHANGED <<currentPdf, saveVars, sinceChange, puts, annotationMode, popupVars, historyRef, canUndo,
                            strictDev, netVars, ghostVars>>
        ELSE /\ nextId' = nextId + Len(created)
             /\ historyRef' = pushRepeated(historyRef, currentPdf.annotations, runs)
             /\ canUndo' = (Len(historyRef') > 0)
             /\ currentPdf' = [currentPdf EXCEPT !.annotations = currentPdf.annotations \o created]
             /\ observeMutation(currentPdf.annotations)
             /\ autosaveEffect(skipNextAutoSaveRef, currentPdf')
             /\ observeChange(currentPdf')
             /\ lastOp' = Op("persistSelection", "create")
             /\ lastInput' = selection
             /\ UNCHANGED <<annotationMode, popupVars, strictDev, netVars, edits>>

\* Mutant of openAnnotationPopup: the draft is not seeded from the stored note.
openAnnotationPopup_KeepsDraft(annotationId, anchorRect) ==
    LET annotation == findAnnotation(annotations, annotationId)
    IN  /\ activeAnnotationId' = annotationId
        /\ noteDraft' = noteDraft
        /\ popupPosition' = [x |-> Frac(2 * anchorRect.left + anchorRect.width, 2),
                             y |-> anchorRect.top + anchorRect.height + 8]
        /\ lastOp' = Op("openAnnotationPopup", "opened")
        /\ lastInput' = [annotationId |-> annotationId, anchorRect |-> anchorRect]
        /\ UNCHANGED <<currentPdf, saveVars, sinceChange, puts, annotationMode, historyRef, canUndo, strictDev, netVars, nextId,
                       ghostVars>>

\* Click on an annotation's button in the highlight layer.
openAnnotationPopup(annotationId, anchorRect) ==
    LET annotation == findAnnotation(annotations, annotationId)
    IN  /\ activeAnnotationId' = annotationId
        /\ noteDraft' = IF annotation = NULL THEN <<>> ELSE orEmpty(annotation.note)
        /\ popupPosition' = [x |-> Frac(2 * anchorRect.left + anchorRect.width, 2),
                             y |-> anchorRect.top + anchorRect.height + 8]
        /\ lastOp' = Op("openAnnotationPopup", "opened")
        /\ lastInput' = [annotationId |-> annotationId, anchorRect |-> anchorRect]
        /\ UNCHANGED <<currentPdf, saveVars, sinceChange, puts, annotationMode, historyRef, canUndo, strictDev, netVars, nextId,
                       ghostVars>>

\* onChange of the note text field.
setNoteDraft(text) ==
    /\ noteDraft' = text
    /\ lastOp' = Op("setNoteDraft", "typed")
    /\ lastInput' = NULL
    /\ UNCHANGED <<currentPdf, saveVars, sinceChange, puts, annotationMode, activeAnnotationId, popupPosition, historyRef,
                   canUndo, strictDev, netVars, nextId, ghostVars>>

\* Mutant of handleUndo: closeAnnotationPopup() runs before the emptiness check.
handleUndo_ClosesFirst ==
    IF Len(historyRef) = 0
    THEN /\ closeAnnotationPopup
         /\ undos' = undos + 1
         /\ lastOp' = Op("handleUndo", "empty")
         /\ lastInput' = NULL
         /\ UNCHANGED <<currentPdf, saveVars, sinceChange, puts, annotationMode, historyRef, canUndo, strictDev, netVars,
                        nextId, log, clean, edits>>
    ELSE /\ historyRef' = SubSeq(historyRef, 1, Len(historyRef) - 1)
         /\ canUndo' = (Len(historyRef') > 0)
         /\ currentPdf' = IF currentPdf = NULL THEN NULL
                          ELSE [currentPdf EXCEPT !.annotations = historyRef[Len(historyRef)]]
         /\ closeAnnotationPopup
         /\ undos' = undos + 1
         /\ autosaveEffect(skipNextAutoSaveRef, currentPdf')
         /\ observeChange(currentPdf')
         /\ lastOp' = Op("handleUndo", "restored")
         /\ lastInput' = NULL
         /\ UNCHANGED <<annotationMode, strictDev, netVars, nextId, log, clean, edits>>

\* Mutant of handleUndo: setCanUndo is computed from the length before the pop.
handleUndo_StaleCanUndo ==
    IF Len(historyRef) = 0
    THEN /\ undos' = undos + 1
         /\ lastOp' = Op("handleUndo", "empty")
         /\ lastInput' = NULL
         /\ UNCHANGED <<currentPdf, saveVars, sinceChange, puts, annotationMode, popupVars, historyRef, canUndo, strictDev, netVars,
                        nextId, log, clean, edits>>
    ELSE /\ historyRef' = SubSeq(historyRef, 1, Len(historyRef) - 1)
         /\ canUndo' = (Len(historyRef) > 0)
         /\ currentPdf' = IF currentPdf = NULL THEN NULL
                          ELSE [currentPdf EXCEPT !.annotations = historyRef[Len(historyRef)]]
         /\ closeAnnotationPopup
         /\ undos' = undos + 1
         /\ autosaveEffect(skipNextAutoSaveRef, currentPdf')
         /\ observeChange(currentPdf')
         /\ lastOp' = Op("handleUndo", "restored")
         /\ lastInput' = NULL
         /\ UNCHANGED <<annotationMode, strictDev, netVars, nextId, log, clean, edits>>

\* Mutant of handleUndo: the replaced collection is pushed back as a redo entry.
handleUndo_PushesRedo ==
    IF Len(historyRef) = 0
    THEN /\ undos' = undos + 1
         /\ lastOp' = Op("handleUndo", "empty")
         /\ lastInput' = NULL
         /\ UNCHANGED <<currentPdf, saveVars, sinceChange, puts, annotationMode, popupVars, historyRef, canUndo, strictDev, netVars,
                        nextId, log, clean, edits>>
    ELSE /\ historyRef' = Append(SubSeq(historyRef, 1, Len(historyRef) - 1),
                                 cloneAnnotations(annotations))
         /\ canUndo' = (Len(historyRef') > 0)
         /\ currentPdf' = IF currentPdf = NULL THEN NULL
                          ELSE [currentPdf EXCEPT !.annotations = historyRef[Len(historyRef)]]
         /\ closeAnnotationPopup
         /\ undos' = undos + 1
         /\ autosaveEffect(skipNextAutoSaveRef, currentPdf')
         /\ observeChange(currentPdf')
         /\ lastOp' = Op("handleUndo", "restored")
         /\ lastInput' = NULL
         /\ UNCHANGED <<annotationMode, strictDev, netVars, nextId, log, clean, edits>>

\* Undo button or Cmd/Ctrl+Z.
handleUndo ==
    IF Len(historyRef) = 0
    THEN /\ undos' = undos + 1
         /\ lastOp' = Op("handleUndo", "empty")
         /\ lastInput' = NULL
         /\ UNCHANGED <<currentPdf, saveVars, sinceChange, puts, annotationMode, popupVars, historyRef, canUndo, strictDev, netVars,
                        nextId, log, clean, edits>>
    ELSE LET previousAnnotations == historyRef[Len(historyRef)]
         IN  /\ historyRef' = SubSeq(historyRef, 1, Len(historyRef) - 1)
             /\ canUndo' = (Len(historyRef') > 0)
             /\ currentPdf' = IF currentPdf = NULL THEN NULL
                              ELSE [currentPdf EXCEPT !.annotations = previousAnnotations]
             /\ closeAnnotationPopup
             /\ undos' = undos + 1
             /\ autosaveEffect(skipNextAutoSaveRef, currentPdf')
             /\ observeChange(currentPdf')
             /\ lastOp' = Op("handleUndo", "restored")
             /\ lastInput' = NULL
             /\ UNCHANGED <<annotationMode, strictDev, netVars, nextId, log, clean, edits>>

\* Mutant of handleSaveNote: the snapshots share the annotation objects with the
\* live collection and the note is assigned in place, so every snapshot holding
\* the annotation sees the new note.
handleSaveNote_InPlace ==
    IF currentPdf = NULL \/ activeAnnotationId = NULL
    THEN /\ lastOp' = Op("handleSaveNote", "nothing-active")
         /\ lastInput' = NULL
         /\ UNCHANGED <<currentPdf, saveVars, sinceChange, puts, annotationMode, popupVars, historyRef, canUndo, strictDev, netVars,
                        nextId, ghostVars>>
    ELSE LET targetAnnotation == findAnnotation(currentPdf.annotations, activeAnnotationId)
             trimmedNote      == orUndefined(trim(noteDraft))
             pushed           == pushHistorySnapshot(historyRef, currentPdf.annotations)
         IN  IF targetAnnotation = NULL
             THEN /\ lastOp' = Op("handleSaveNote", "missing")
                  /\ lastInput' = NULL
                  /\ UNCHANGED <<currentPdf, saveVars, sinceChange, puts, annotationMode, popupVars, historyRef, canUndo,
                                 strictDev, netVars, nextId, ghostVars>>
             ELSE IF targetAnnotation.note = trimmedNote
             THEN /\ closeAnnotationPopup
                  /\ lastOp' = Op("handleSaveNote", "same")
                  /\ lastInput' = NULL
                  /\ UNCHANGED <<currentPdf, saveVars, sinceChange, puts, annotationMode, historyRef, canUndo, strictDev, netVars,
                                 nextId, ghostVars>>
             ELSE /\ historyRef' = [i \in 1..Len(pushed) |->
                                       withNote(pushed[i], activeAnnotationId, trimmedNote)]
                  /\ canUndo' = (Len(historyRef') > 0)
                  /\ currentPdf' = [currentPdf EXCEPT !.annotations =
                                       withNote(currentPdf.annotations, activeAnnotationId,
                                                trimmedNote)]
                  /\ closeAnnotationPopup
                  /\ observeMutation(currentPdf.annotations)
                  /\ edits' = edits + 1
                  /\ autosaveEffect(skipNextAutoSaveRef, currentPdf')
                  /\ observeChange(currentPdf')
                  /\ lastOp' = Op("handleSaveNote", "changed")
                  /\ lastInput' = NULL
                  /\ UNCHANGED <<annotationMode, strictDev, netVars, nextId>>

\* Mutant of handleSaveNote: the draft is stored untrimmed.
handleSaveNote_NoTrim ==
    IF currentPdf = NULL \/ activeAnnotationId = NULL
    THEN /\ lastOp' = Op("handleSaveNote", "nothing-active")
         /\ lastInput' = NULL
         /\ UNCHANGED <<currentPdf, saveVars, sinceChange, puts, annotationMode, popupVars, historyRef, canUndo, strictDev, netVars,
                        nextId, ghostVars>>
    ELSE LET targetAnnotation == findAnnotation(currentPdf.annotations, activeAnnotationId)
             trimmedNote      == orUndefined(noteDraft)
         IN  IF targetAnnotation = NULL
             THEN /\ lastOp' = Op("handleSaveNote", "missing")
                  /\ lastInput' = NULL
                  /\ UNCHANGED <<currentPdf, saveVars, sinceChange, puts, annotationMode, popupVars, historyRef, canUndo,
                                 strictDev, netVars, nextId, ghostVars>>
             ELSE IF targetAnnotation.note = trimmedNote
             THEN /\ closeAnnotationPopup
                  /\ lastOp' = Op("handleSaveNote", "same")
                  /\ lastInput' = NULL
                  /\ UNCHANGED <<currentPdf, saveVars, sinceChange, puts, annotationMode, historyRef, canUndo, strictDev, netVars,
                                 nextId, ghostVars>>
             ELSE /\ historyRef' = pushHistorySnapshot(historyRef, currentPdf.annotations)
                  /\ canUndo' = (Len(historyRef') > 0)
                  /\ currentPdf' = [currentPdf EXCEPT !.annotations =
                                       withNote(currentPdf.annotations, activeAnnotationId,
                                                trimmedNote)]
                  /\ closeAnnotationPopup
                  /\ observeMutation(currentPdf.annotations)
                  /\ edits' = edits + 1
                  /\ autosaveEffect(skipNextAutoSaveRef, currentPdf')
                  /\ observeChange(currentPdf')
                  /\ lastOp' = Op("handleSaveNote", "changed")
                  /\ lastInput' = NULL
                  /\ UNCHANGED <<annotationMode, strictDev, netVars, nextId>>

\* Save button of the popup, or Enter in the note field.
handleSaveNote ==
    IF currentPdf = NULL \/ activeAnnotationId = NULL
    THEN /\ lastOp' = Op("handleSaveNote", "nothing-active")
         /\ lastInput' = NULL
         /\ UNCHANGED <<currentPdf, saveVars, sinceChange, puts, annotationMode, popupVars, historyRef, canUndo, strictDev, netVars,
                        nextId, ghostVars>>
    ELSE LET targetAnnotation == findAnnotation(currentPdf.annotations, activeAnnotationId)
             trimmedNote      == orUndefined(trim(noteDraft))
         IN  IF targetAnnotation = NULL
             THEN /\ lastOp' = Op("handleSaveNote", "missing")
                  /\ lastInput' = NULL
                  /\ UNCHANGED <<currentPdf, saveVars, sinceChange, puts, annotationMode, popupVars, historyRef, canUndo,
                                 strictDev, netVars, nextId, ghostVars>>
             ELSE IF targetAnnotation.note = trimmedNote
             THEN /\ closeAnnotationPopup
                  /\ lastOp' = Op("handleSaveNote", "same")
                  /\ lastInput' = NULL
                  /\ UNCHANGED <<currentPdf, saveVars, sinceChange, puts, annotationMode, historyRef, canUndo, strictDev, netVars,
                                 nextId, ghostVars>>
             ELSE /\ historyRef' = pushHistorySnapshot(historyRef, currentPdf.annotations)
                  /\ canUndo' = (Len(historyRef') > 0)
                  /\ currentPdf' = [currentPdf EXCEPT !.annotations =
                                       withNote(currentPdf.annotations, activeAnnotationId,
                                                trimmedNote)]
                  /\ closeAnnotationPopup
                  /\ observeMutation(currentPdf.annotations)
                  /\ edits' = edits + 1
                  /\ autosaveEffect(skipNextAutoSaveRef, currentPdf')
                  /\ observeChange(currentPdf')
                  /\ lastOp' = Op("handleSaveNote", "changed")
                  /\ lastInput' = NULL
                  /\ UNCHANGED <<annotationMode, strictDev, netVars, nextId>>

\* Mutant of handleDeleteAnnotation: no check that the annotation exists.
handleDeleteAnnotation_NoExistsCheck ==
    IF currentPdf = NULL \/ activeAnnotationId = NULL
    THEN /\ lastOp' = Op("handleDeleteAnnotation", "nothing-active")
         /\ lastInput' = NULL
         /\ UNCHANGED <<currentPdf, saveVars, sinceChange, puts, annotationMode, popupVars, historyRef, canUndo, strictDev, netVars,
                        nextId, ghostVars>>
    ELSE /\ historyRef' = pushHistorySnapshot(historyRef, currentPdf.annotations)
         /\ canUndo' = (Len(historyRef') > 0)
         /\ currentPdf' = [currentPdf EXCEPT !.annotations =
                              without(currentPdf.annotations, activeAnnotationId)]
         /\ closeAnnotationPopup
         /\ observeMutation(currentPdf.annotations)
         /\ edits' = edits + 1
         /\ autosaveEffect(skipNextAutoSaveRef, currentPdf')
         /\ observeChange(currentPdf')
         /\ lastOp' = Op("handleDeleteAnnotation", "deleted")
         /\ lastInput' = NULL
         /\ UNCHANGED <<annotationMode, strictDev, netVars, nextId>>

\* Mutant of handleDeleteAnnotation: no snapshot is pushed.
handleDeleteAnnotation_NoSnapshot ==
    IF currentPdf = NULL \/ activeAnnotationId = NULL
    THEN /\ lastOp' = Op("handleDeleteAnnotation", "nothing-active")
         /\ lastInput' = NULL
         /\ UNCHANGED <<currentPdf, saveVars, sinceChange, puts, annotationMode, popupVars, historyRef, canUndo, strictDev, netVars,
                        nextId, ghostVars>>
    ELSE IF findAnnotation(currentPdf.annotations, activeAnnotationId) = NULL
    THEN /\ closeAnnotationPopup
         /\ lastOp' = Op("handleDeleteAnnotation", "missing")
         /\ lastInput' = NULL
         /\ UNCHANGED <<currentPdf, saveVars, sinceChange, puts, annotationMode, historyRef, canUndo, strictDev, netVars, nextId,
                        ghostVars>>
    ELSE /\ UNCHANGED <<historyRef, canUndo>>
         /\ currentPdf' = [currentPdf EXCEPT !.annotations =
                              without(currentPdf.annotations, activeAnnotationId)]
         /\ closeAnnotationPopup
         /\ observeMutation(currentPdf.annotations)
         /\ edits' = edits + 1
         /\ autosaveEffect(skipNextAutoSaveRef, currentPdf')
         /\ observeChange(currentPdf')
         /\ lastOp' = Op("handleDeleteAnnotation", "deleted")
         /\ lastInput' = NULL
         /\ UNCHANGED <<annotationMode, strictDev, netVars, nextId>>

\* Delete button of the popup.
handleDeleteAnnotation ==
    IF currentPdf = NULL \/ activeAnnotationId = NULL
    THEN /\ lastOp' = Op("handleDeleteAnnotation", "nothing-active")
         /\ lastInput' = NULL
         /\ UNCHANGED <<currentPdf, saveVars, sinceChange, puts, annotationMode, popupVars, historyRef, canUndo, strictDev, netVars,
                        nextId, ghostVars>>
    ELSE IF findAnnotation(currentPdf.annotations, activeAnnotationId) = NULL
    THEN /\ closeAnnotationPopup
         /\ lastOp' = Op("handleDeleteAnnotation", "missing")
         /\ lastInput' = NULL
         /\ UNCHANGED <<currentPdf, saveVars, sinceChange, puts, annotationMode, historyRef, canUndo, strictDev, netVars, nextId,
                        ghostVars>>
    ELSE /\ historyRef' = pushHistorySnapshot(historyRef, currentPdf.annotations)
         /\ canUndo' = (Len(historyRef') > 0)
         /\ currentPdf' = [currentPdf EXCEPT !.annotations =
                              without(currentPdf.annotations, activeAnnotationId)]
         /\ closeAnnotationPopup
         /\ observeMutation(currentPdf.annotations)
         /\ edits' = edits + 1
         /\ autosaveEffect(skipNextAutoSaveRef, currentPdf')
         /\ observeChange(currentPdf')
         /\ lastOp' = Op("handleDeleteAnnotation", "deleted")
         /\ lastInput' = NULL
         /\ UNCHANGED <<annotationMode, strictDev, netVars, nextId>>

\* A clear-note that closes the popup as note commit and delete do.
handleClearNote_ClosesPopup ==
    IF currentPdf = NULL \/ activeAnnotationId = NULL
    THEN /\ lastOp' = Op("handleClearNote", "nothing-active")
         /\ lastInput' = NULL
         /\ UNCHANGED <<currentPdf, saveVars, sinceChange, puts, annotationMode, popupVars, historyRef, canUndo, strictDev, netVars,
                        nextId, ghostVars>>
    ELSE LET targetAnnotation == findAnnotation(currentPdf.annotations, activeAnnotationId)
         IN  IF targetAnnotation = NULL \/ ~truthy(targetAnnotation.note)
             THEN /\ lastOp' = Op("handleClearNote", "no-note")
                  /\ lastInput' = NULL
                  /\ UNCHANGED <<currentPdf, saveVars, sinceChange, puts, annotationMode, popupVars, historyRef, canUndo,
                                 strictDev, netVars, nextId, ghostVars>>
             ELSE /\ historyRef' = pushHistorySnapshot(historyRef, currentPdf.annotations)
                  /\ canUndo' = (Len(historyRef') > 0)
                  /\ currentPdf' = [currentPdf EXCEPT !.annotations =
                                       withNote(currentPdf.annotations, activeAnnotationId,
                                                undefined)]
                  /\ closeAnnotationPopup
                  /\ observeMutation(currentPdf.annotations)
                  /\ edits' = edits + 1
                  /\ autosaveEffect(skipNextAutoSaveRef, currentPdf')
                  /\ observeChange(currentPdf')
                  /\ lastOp' = Op("handleClearNote", "cleared")
                  /\ lastInput' = NULL
                  /\ UNCHANGED <<annotationMode, strictDev, netVars, nextId>>


\* Delete Note button of the popup.
handleClearNote ==
    IF currentPdf = NULL \/ activeAnnotationId = NULL
    THEN /\ lastOp' = Op("handleClearNote", "nothing-active")
         /\ lastInput' = NULL
         /\ UNCHANGED <<currentPdf, saveVars, sinceChange, puts, annotationMode, popupVars, historyRef, canUndo, strictDev, netVars,
                        nextId, ghostVars>>
    ELSE LET targetAnnotation == findAnnotation(currentPdf.annotations, activeAnnotationId)
         IN  IF targetAnnotation = NULL \/ ~truthy(targetAnnotation.note)
             THEN /\ lastOp' = Op("handleClearNote", "no-note")
                  /\ lastInput' = NULL
                  /\ UNCHANGED <<currentPdf, saveVars, sinceChange, puts, annotationMode, popupVars, historyRef, canUndo,
                                 strictDev, netVars, nextId, ghostVars>>
             ELSE /\ historyRef' = pushHistorySnapshot(historyRef, currentPdf.annotations)
                  /\ canUndo' = (Len(historyRef') > 0)
                  /\ currentPdf' = [currentPdf EXCEPT !.annotations =
                                       withNote(currentPdf.annotations, activeAnnotationId,
                                                undefined)]
                  /\ noteDraft' = <<>>
                  /\ observeMutation(currentPdf.annotations)
                  /\ edits' = edits + 1
                  /\ autosaveEffect(skipNextAutoSaveRef, currentPdf')
                  /\ observeChange(currentPdf')
                  /\ lastOp' = Op("handleClearNote", "cleared")
                  /\ lastInput' = NULL
                  /\ UNCHANGED <<annotationMode, activeAnnotationId, popupPosition, strictDev, netVars,
                                 nextId>>

\* Mutant of handleOutsideClick: the draft survives the close.
handleOutsideClick_KeepsDraft(insidePopup) ==
    IF popupPosition # NULL /\ ~insidePopup
    THEN /\ activeAnnotationId' = NULL
         /\ popupPosition' = NULL
         /\ noteDraft' = noteDraft
         /\ lastOp' = Op("handleOutsideClick", "closed")
         /\ lastInput' = [insidePopup |-> insidePopup]
         /\ UNCHANGED <<currentPdf, saveVars, sinceChange, puts, annotationMode, historyRef, canUndo, strictDev, netVars, nextId,
                        ghostVars>>
    ELSE /\ lastOp' = Op("handleOutsideClick", "inside")
         /\ lastInput' = [insidePopup |-> insidePopup]
         /\ UNCHANGED <<currentPdf, saveVars, sinceChange, puts, annotationMode, popupVars, historyRef, canUndo, strictDev, netVars,
                        nextId, ghostVars>>

\* mousedown on the document while an annotation is active.
handleOutsideClick(insidePopup) ==
    IF popupPosition # NULL /\ ~insidePopup
    THEN /\ closeAnnotationPopup
         /\ lastOp' = Op("handleOutsideClick", "closed")
         /\ lastInput' = [insidePopup |-> insidePopup]
         /\ UNCHANGED <<currentPdf, saveVars, sinceChange, puts, annotationMode, historyRef, canUndo, strictDev, netVars, nextId,
                        ghostVars>>
    ELSE /\ lastOp' = Op("handleOutsideClick", "inside")
         /\ lastInput' = [insidePopup |-> insidePopup]
         /\ UNCHANGED <<currentPdf, saveVars, sinceChange, puts, annotationMode, popupVars, historyRef, canUndo, strictDev, netVars,
                        nextId, ghostVars>>

(***************************************************************************)
(* JSON on the wire and in db.json.  A JSON value is a string JStr(s), an  *)
(* array JArr(a) or null (NULL); an object is a function from its keys.    *)
(* JSON.stringify leaves out a key whose value is undefined.               *)
(***************************************************************************)
JStr(s) == [string |-> s]

JArr(a) == [array |-> a]

\* JSON.stringify of an annotation: the note key is present only for a
\* defined note.
stringifyAnnotation(annotation) ==
    IF annotation.note.defined
    THEN [id |-> annotation.id, type |-> annotation.type, pageIndex |-> annotation.pageIndex,
          rects |-> annotation.rects, note |-> annotation.note.value]
    ELSE [id |-> annotation.id, type |-> annotation.type, pageIndex |-> annotation.pageIndex,
          rects |-> annotation.rects]

\* JSON.parse of an annotation: a missing key reads as undefined.
parseAnnotation(json) ==
    Annotation(json.id, json.type, json.pageIndex, json.rects,
               IF "note" \in DOMAIN json THEN Str(json.note) ELSE undefined)

\* The JSON of a document: the body of the viewer's PUT, and a record of
\* db.json.
stringify(pdf) ==
    [id |-> pdf.id, originalName |-> pdf.originalName, filename |-> pdf.filename,
     path |-> pdf.path, createdAt |-> pdf.createdAt,
     title |-> JStr(pdf.title), author |-> JStr(pdf.author), journal |-> JStr(pdf.journal),
     annotations |-> JArr([i \in 1..Len(pdf.annotations) |->
                              stringifyAnnotation(pdf.annotations[i])])]

\* response.data of a GET as the viewer reads it.
parse(record) ==
    [id |-> record.id, originalName |-> record.originalName, filename |-> record.filename,
     path |-> record.path, createdAt |-> record.createdAt,
     title |-> record.title.string, author |-> record.author.string,
     journal |-> record.journal.string,
     annotations |-> [i \in 1..Len(record.annotations.array) |->
                         parseAnnotation(record.annotations.array[i])]]

(***************************************************************************)
(* The server (server/index.js): the routes on /api/pdfs/:id over the      *)
(* store db.pdfs.  Each route gives the status and body of its response    *)
(* and the store it has written.                                           *)
(***************************************************************************)
\* db.pdfs.findIndex(p => p.id === id), counted from 1; 0 for -1.
findIndex(pdfs, id) ==
    IF \E i \in 1..Len(pdfs) : pdfs[i].id = id
    THEN CHOOSE i \in 1..Len(pdfs) : pdfs[i].id = id /\ \A j \in 1..(i - 1) : pdfs[j].id # id
    ELSE 0

NotFound == [status |-> 404, body |-> NULL]

\* body.field ?? stored: the stored value for a missing key and for null.
coalesce(body, field, stored) ==
    IF field \in DOMAIN body /\ body[field] # NULL THEN body[field] ELSE stored

\* app.get('/api/pdfs/:id')
appGet(pdfs, id) ==
    LET pdfIndex == findIndex(pdfs, id)
    IN  IF pdfIndex = 0 THEN [response |-> NotFound, pdfs |-> pdfs]
        ELSE [response |-> [status |-> 200, body |-> pdfs[pdfIndex]], pdfs |-> pdfs]

\* Mutant of appDelete: splice(0, 1).
appDelete_RemovesFirst(pdfs, id) ==
    LET pdfIndex == findIndex(pdfs, id)
    IN  IF pdfIndex = 0 THEN [response |-> NotFound, pdfs |-> pdfs, unlink |-> NULL]
        ELSE [response |-> [status |-> 200, body |-> [message |-> "deleted"]],
              pdfs |-> SubSeq(pdfs, 2, Len(pdfs)),
              unlink |-> [filename |-> pdfs[1].filename]]

\* app.delete('/api/pdfs/:id'); unlink is the uploaded file it removes.
appDelete(pdfs, id) ==
    LET pdfIndex == findIndex(pdfs, id)
    IN  IF pdfIndex = 0 THEN [response |-> NotFound, pdfs |-> pdfs, unlink |-> NULL]
        ELSE [response |-> [status |-> 200, body |-> [message |-> "deleted"]],
              pdfs |-> SubSeq(pdfs, 1, pdfIndex - 1) \o SubSeq(pdfs, pdfIndex + 1, Len(pdfs)),
              unlink |-> [filename |-> pdfs[pdfIndex].filename]]

\* Mutant of appPut: an empty array of annotations is not taken.
appPut_KeepsOnEmpty(pdfs, id, body) ==
    LET pdfIndex == findIndex(pdfs, id)
        stored   == pdfs[pdfIndex]
        updated  == [stored EXCEPT
                        !.title = coalesce(body, "title", stored.title),
                        !.author = coalesce(body, "author", stored.author),
                        !.journal = coalesce(body, "journal", stored.journal),
                        !.annotations =
                            IF coalesce(body, "annotations", stored.annotations) = JArr(<<>>)
                            THEN stored.annotations
                            ELSE coalesce(body, "annotations", stored.annotations)]
    IN  IF pdfIndex = 0 THEN [response |-> NotFound, pdfs |-> pdfs]
        ELSE [response |-> [status |-> 200, body |-> updated],
              pdfs |-> [pdfs EXCEPT ![pdfIndex] = updated]]

\* Mutant of appPut: the record is replaced by the body.
appPut_Replaces(pdfs, id, body) ==
    LET pdfIndex == findIndex(pdfs, id)
    IN  IF pdfIndex = 0 THEN [response |-> NotFound, pdfs |-> pdfs]
        ELSE [response |-> [status |-> 200, body |-> body],
              pdfs |-> [pdfs EXCEPT ![pdfIndex] = body]]

\* app.put('/api/pdfs/:id')
appPut(pdfs, id, body) ==
    LET pdfIndex == findIndex(pdfs, id)
        stored   == pdfs[pdfIndex]
        updated  == [stored EXCEPT
                        !.title = coalesce(body, "title", stored.title),
                        !.author = coalesce(body, "author", stored.author),
                        !.journal = coalesce(body, "journal", stored.journal),
                        !.annotations = coalesce(body, "annotations", stored.annotations)]
    IN  IF pdfIndex = 0 THEN [response |-> NotFound, pdfs |-> pdfs]
        ELSE [response |-> [status |-> 200, body |-> updated],
              pdfs |-> [pdfs EXCEPT ![pdfIndex] = updated]]

\* saveAnnotations, up to the await: the PUT of the document the callback
\* closes over leaves for the server.  `puts` keeps every PUT ever sent.
saveAnnotations(pdf, auto) ==
    IF pdf = NULL THEN UNCHANGED <<requests, puts>>
    ELSE /\ requests' = Append(requests, [id |-> pdf.id, body |-> stringify(pdf), auto |-> auto,
                                          response |-> NULL])
         /\ puts' = Append(puts, [id |-> pdf.id, body |-> pdf, auto |-> auto])

\* The callback of the autosave timeout `t`, run by the browser when t is due:
\* saveAnnotations({ auto: true }) of the render that armed it issues the PUT,
\* then the ref is reset.
autoSaveTimeout(t) ==
    /\ timers' = timers \ {t}
    /\ saveAnnotations(t.pdf, TRUE)
    /\ autoSaveTimerRef' = NULL
    /\ lastOp' = Op("autoSaveTimeout", "put")
    /\ lastInput' = NULL
    /\ UNCHANGED <<currentPdf, annotationMode, popupVars, historyRef, canUndo, strictDev,
                   message, messageTimers, db,
                   nextId, skipNextAutoSaveRef, sinceChange, ghostVars>>

\* One tick of the clock.  A timeout that is due runs before more time passes.
\* sinceChange stops counting one tick past the delay.
Elapse ==
    /\ \A t \in timers : t.remaining > 0
    /\ \A i \in 1..Len(messageTimers) : messageTimers[i] > 0
    /\ timers' = {[t EXCEPT !.remaining = t.remaining - 1] : t \in timers}
    /\ messageTimers' = [i \in 1..Len(messageTimers) |-> messageTimers[i] - 1]
    /\ sinceChange' = IF sinceChange < 0 \/ sinceChange > delayTicks
                      THEN sinceChange ELSE sinceChange + 1
    /\ lastOp' = Op("clock", "tick")
    /\ lastInput' = NULL
    /\ UNCHANGED <<currentPdf, annotationMode, popupVars, historyRef, canUndo, strictDev,
                   message, requests, db,
                   nextId, skipNextAutoSaveRef, autoSaveTimerRef, puts, ghostVars>>

(***************************************************************************)
(* The viewer variant without history (client/src/pages/PdfViewPage.tsx):  *)
(* the selection plugin hands handleTextSelection a range with its page    *)
(* and rects; the neutral mode is 'none'.  The document after the call.    *)
(***************************************************************************)
handleTextSelection(mode, pdf, range, id) ==
    IF mode = "none" \/ pdf = NULL THEN pdf
    ELSE [pdf EXCEPT !.annotations =
             Append(pdf.annotations,
                    Annotation(id, mode, range.pageIndex, range.rects, undefined))]

\* The variant's handleSaveNote: the document after the call with the popup on
\* `activeId` and the draft `draft`.
handleSaveNoteVariant(pdf, activeId, draft) ==
    IF pdf = NULL \/ activeId = NULL THEN pdf
    ELSE [pdf EXCEPT !.annotations = withNote(pdf.annotations, activeId, orUndefined(trim(draft)))]

(***************************************************************************)
(* Inputs: the documents the store returns, the selections found at        *)
(* pointer-up, the rects of clicked annotation buttons, the typed drafts.  *)
(***************************************************************************)
Modes == {"cursor", "highlight", "underline"}

StoredRect == [x |-> Frac(5, 1), y |-> Frac(1, 1), width |-> Frac(25, 1), height |-> Frac(1, 2)]

\* A document as the viewer holds it: response.data of the GET, with every
\* field of the server's record.
PDF(id, as) ==
    [id |-> id, originalName |-> "f.pdf", filename |-> "file-1.pdf", path |-> "/files/file-1.pdf",
     title |-> "t", author |-> "x", journal |-> "", annotations |-> as,
     createdAt |-> "2024-01-01T00:00:00.000Z"]

\* One annotation with a note.
DocA == PDF("A", <<Annotation(Id(101), "highlight", 0, <<StoredRect>>, Str(<<"a">>))>>)

\* An annotation stored with an empty-string note, and one without a note.
DocB == PDF("B", <<Annotation(Id(102), "underline", 0, <<StoredRect>>, Str(<<>>)),
                   Annotation(Id(103), "highlight", 1, <<StoredRect>>, undefined)>>)

Documents == {DocA, DocB}

\* db.json as the uploads have left it: one record per document.
InitialStore == <<stringify(DocA), stringify(DocB)>>

\* The viewer as mounted, before the effect that loads the document.
Init ==
    /\ currentPdf = NULL
    /\ annotationMode = "cursor"
    /\ activeAnnotationId = NULL
    /\ noteDraft = <<>>
    /\ popupPosition = NULL
    /\ historyRef = <<>>
    /\ canUndo = FALSE
    /\ strictDev \in BOOLEAN
    /\ nextId = 1
    /\ skipNextAutoSaveRef = TRUE
    /\ autoSaveTimerRef = NULL
    /\ timers = {}
    /\ message = ""
    /\ messageTimers = <<>>
    /\ requests = <<>>
    /\ db = InitialStore
    /\ mounted = TRUE
    /\ scroll = [saved |-> NULL, scrollTop |-> Frac(0, 1), scrollHeight |-> 1000,
                 clientHeight |-> 400, thrown |-> FALSE]
    /\ log = <<>>
    /\ undos = 0
    /\ clean = TRUE
    /\ edits = 0
    /\ lastOp = [handler |-> "init", branch |-> "init"]
    /\ lastInput = NULL
    /\ sinceChange = -1
    /\ puts = <<>>
    /\ steps = 0

Page0 == PageLayer(0, DOMRect(0, 0, 200, 1000))

Page1 == PageLayer(1, DOMRect(0, 1000, 200, 1000))

Selection(isCollapsed, text, clientRects) ==
    [isCollapsed |-> isCollapsed, inTextLayer |-> TRUE, rangeCount |-> 1, text |-> text,
     clientRects |-> clientRects, pageLayers |-> <<Page0, Page1>>]

\* One line on page 0.
SelOne == Selection(FALSE, <<"a">>, <<DOMRect(10, 10, 50, 5)>>)

\* Lines on page 0 and page 1 and a zero-width fragment.
SelTwo == Selection(FALSE, <<"a", " ", "a">>,
                    <<DOMRect(10, 990, 50, 5), DOMRect(10, 1020, 0, 5), DOMRect(10, 1010, 50, 5)>>)

\* A caret: nothing selected.
SelCollapsed == Selection(TRUE, <<>>, <<DOMRect(10, 10, 0, 5)>>)

\* Text selected beside the pages.
SelOutside == Selection(FALSE, <<"a">>, <<DOMRect(300, 10, 50, 5)>>)

Selections == {SelOne, SelTwo, SelCollapsed, SelOutside}

AnchorRects == {DOMRect(10, 10, 50, 5)}

\* Ranges the selection plugin reports to handleTextSelection.
SelectionRanges == {[pageIndex |-> 0, rects |-> <<StoredRect>>],
                    [pageIndex |-> 1, rects |-> <<StoredRect, StoredRect>>]}

NoteDrafts == {<<>>, <<" ">>, <<"a">>, <<"b", " ">>}

(***************************************************************************)
(* Spec: every handler with every input, for runs of at most MaxSteps      *)
(* events.                                                                 *)
(***************************************************************************)
Tick == steps < MaxSteps /\ steps' = steps + 1 /\ UNCHANGED <<mounted, scroll>>

OnLoad == Tick /\ \E doc \in Documents : fetchPdfData(doc)

OnModeAction == Tick /\ \E mode \in Modes : setAnnotationMode(mode)

OnPointerUp ==
    Tick /\ \E selection \in Selections, runs \in UpdaterRuns : persistSelection(selection, runs)

OnAnnotationClick ==
    /\ Tick
    /\ \E i \in 1..Len(annotations), anchorRect \in AnchorRects :
           openAnnotationPopup(annotations[i].id, anchorRect)

OnDraftChange == Tick /\ popupShown /\ \E text \in NoteDrafts : setNoteDraft(text)

OnSaveNote == Tick /\ popupShown /\ handleSaveNote

OnDeleteAnnotation == Tick /\ popupShown /\ handleDeleteAnnotation

\* The Delete Note button is rendered only when activeAnnotation?.note is truthy.
clearNoteShown ==
    /\ popupShown
    /\ findAnnotation(annotations, activeAnnotationId) # NULL
    /\ truthy(findAnnotation(annotations, activeAnnotationId).note)

OnClearNote == Tick /\ clearNoteShown /\ handleClearNote

OnMouseDown ==
    Tick /\ activeAnnotationId # NULL /\ \E insidePopup \in BOOLEAN : handleOutsideClick(insidePopup)

OnUndo == Tick /\ handleUndo

Next ==
    \/ OnLoad
    \/ OnModeAction
    \/ OnPointerUp
    \/ OnAnnotationClick
    \/ OnDraftChange
    \/ OnSaveNote
    \/ OnDeleteAnnotation
    \/ OnClearNote
    \/ OnMouseDown
    \/ OnUndo

Spec == Init /\ [][Next]_vars

(***************************************************************************)
(* SpecDeep: one long session of the same handlers.  The user loads DocA,  *)
(* may edit it through the popup, switches to highlight, makes up to       *)
(* MaxDeepMutations mutations by selecting one line at a time, and then    *)
(* undoes.  The history stack fills up and evicts.                         *)
(***************************************************************************)
Still == UNCHANGED <<steps, mounted, scroll>>

\* Before the first selection and the first Undo of the session.
deepEditing == currentPdf # NULL /\ nextId = 1 /\ undos = 0

DeepLoad == Still /\ currentPdf = NULL /\ fetchPdfData(DocA)

DeepModeAction == Still /\ deepEditing /\ setAnnotationMode("highlight")

DeepAnnotationClick ==
    /\ Still
    /\ deepEditing
    /\ \E i \in 1..Len(annotations), anchorRect \in AnchorRects :
           openAnnotationPopup(annotations[i].id, anchorRect)

DeepDraftChange == Still /\ deepEditing /\ popupShown /\ setNoteDraft(<<"b", " ">>)

DeepSaveNote == Still /\ deepEditing /\ popupShown /\ edits < MaxDeepEdits /\ handleSaveNote

DeepDeleteAnnotation ==
    Still /\ deepEditing /\ popupShown /\ edits < MaxDeepEdits /\ handleDeleteAnnotation

DeepClearNote ==
    Still /\ deepEditing /\ clearNoteShown /\ edits < MaxDeepEdits /\ handleClearNote

DeepMouseDown == Still /\ deepEditing /\ activeAnnotationId # NULL /\ handleOutsideClick(FALSE)

\* The mousedown that starts a selection has closed the popup.
DeepPointerUp ==
    /\ Still
    /\ undos = 0
    /\ activeAnnotationId = NULL
    /\ Len(log) < MaxDeepMutations
    /\ persistSelection(SelOne, IF strictDev THEN 2 ELSE 1)

DeepUndo == Still /\ undos < Len(log) /\ handleUndo

NextDeep ==
    \/ DeepLoad
    \/ DeepModeAction
    \/ DeepAnnotationClick
    \/ DeepDraftChange
    \/ DeepSaveNote
    \/ DeepDeleteAnnotation
    \/ DeepClearNote
    \/ DeepMouseDown
    \/ DeepPointerUp
    \/ DeepUndo

SpecDeep == Init /\ [][NextDeep]_vars

(***************************************************************************)
(* Claims.                                                                 *)
(***************************************************************************)

(***************************************************************************)
(* SpecMapping: the selection-to-annotation mapping on many selections.    *)
(* The user loads DocA and, each time after picking a mode, releases the   *)
(* pointer over a selection of up to MaxRects client rects in one of the   *)
(* page layouts; after the first selection that creates annotations the    *)
(* session goes on with Undo only.                                         *)
(***************************************************************************)
\* Pages 3 and 4 of a scrolled viewer, with a gap between them.
Page3 == PageLayer(3, DOMRect(20, -500, 200, 1000))

Page4 == PageLayer(4, DOMRect(20, 510, 200, 1000))

\* document.querySelectorAll('.rpv-core__page-layer'): two adjacent pages, two
\* pages with a gap, no page rendered.
PageLayouts == {<<Page0, Page1>>, <<Page3, Page4>>, <<>>}

\* Client rects of a range: lines inside a page, zero-width and zero-height
\* fragments, a line reaching over a page's right edge, a line beside the
\* pages, a line on the edge shared by two pages.
ClientRects ==
    {DOMRect(10, 10, 50, 5), DOMRect(30, 20, 100, 5), DOMRect(10, 1010, 50, 5),
     DOMRect(10, 20, 0, 5), DOMRect(10, 30, 50, 0), DOMRect(160, 10, 60, 5),
     DOMRect(300, 10, 50, 5), DOMRect(10, 995, 50, 10)}

MappingSelections ==
    {[Selection(FALSE, <<"a">>, clientRects) EXCEPT !.pageLayers = pageLayers] :
        clientRects \in UNION {[1..n -> ClientRects] : n \in 0..MaxRects},
        pageLayers \in PageLayouts}

MapLoad == Still /\ currentPdf = NULL /\ fetchPdfData(DocA)

MapModeAction == Still /\ \E mode \in Modes : setAnnotationMode(mode)

MapPointerUp ==
    /\ Still
    /\ currentPdf # NULL
    /\ log = <<>>
    /\ lastOp.handler = "setAnnotationMode"
    /\ \E selection \in MappingSelections, runs \in UpdaterRuns : persistSelection(selection, runs)

MapUndo == Still /\ log # <<>> /\ undos = 0 /\ handleUndo

NextMapping ==
    \/ MapLoad
    \/ MapModeAction
    \/ MapPointerUp
    \/ MapUndo

SpecMapping == Init /\ [][NextMapping]_vars

(***************************************************************************)
(* SpecSave: the handlers that change the document, with the clock.  At    *)
(* most MaxSaveSteps events are handled; between them time passes and the  *)
(* autosave timeout runs when it is due.                                   *)
(***************************************************************************)
SaveTick == steps < MaxSaveSteps /\ steps' = steps + 1 /\ UNCHANGED <<mounted, scroll>>

SaveLoad == SaveTick /\ \E doc \in Documents : fetchPdfData(doc)

SaveModeAction == SaveTick /\ annotationMode = "cursor" /\ setAnnotationMode("highlight")

SavePointerUp ==
    /\ SaveTick
    /\ currentPdf # NULL
    /\ \E selection \in {SelOne, SelOutside}, runs \in UpdaterRuns :
           persistSelection(selection, runs)

SaveAnnotationClick ==
    /\ SaveTick
    /\ \E i \in 1..Len(annotations), anchorRect \in AnchorRects :
           openAnnotationPopup(annotations[i].id, anchorRect)

SaveDeleteAnnotation == SaveTick /\ popupShown /\ handleDeleteAnnotation

SaveUndo == SaveTick /\ handleUndo

SaveElapse == Still /\ Elapse

\* The browser runs the callback of a timeout that is due.
SaveTimeout == Still /\ \E t \in timers : t.remaining = 0 /\ autoSaveTimeout(t)

NextSave ==
    \/ SaveLoad
    \/ SaveModeAction
    \/ SavePointerUp
    \/ SaveAnnotationClick
    \/ SaveDeleteAnnotation
    \/ SaveUndo
    \/ SaveElapse
    \/ SaveTimeout

SpecSave == Init /\ [][NextSave]_vars

(***************************************************************************)
(* SpecServer: the server alone, answering at most MaxRequests requests    *)
(* of any client on /api/pdfs/:id.                                         *)
(***************************************************************************)
\* One request handled by a route: the store it has written and the response
\* it has sent.
answered(route, method, id, body, result) ==
    /\ db' = result.pdfs
    /\ lastOp' = Op(route, IF result.response.status = 200 THEN "200" ELSE "404")
    /\ lastInput' = [method |-> method, id |-> id, body |-> body, response |-> result.response]
    /\ UNCHANGED <<currentPdf, annotationMode, popupVars, historyRef, canUndo, strictDev, nextId,
                   saveVars, message, messageTimers, requests, sinceChange, puts, ghostVars>>

GetPdf(id) == answered("app.get", "GET", id, NULL, appGet(db, id))

PutPdf(id, body) == answered("app.put", "PUT", id, body, appPut(db, id, body))

DeletePdf(id) == answered("app.delete", "DELETE", id, NULL, appDelete(db, id))

\* Ids in request URLs: the two stored documents and one the store never had.
PdfIds == {"A", "B", "Z"}

\* The values a body gives for a field the PUT route reads; null is NULL.
FieldValues(field) ==
    CASE field = "title" -> {NULL, JStr("u")}
      [] field = "author" -> {JStr("")}
      [] field = "journal" -> {JStr("j")}
      [] field = "annotations" ->
             {NULL, JArr(<<>>),
              JArr(<<stringifyAnnotation(Annotation(Id(1), "highlight", 0, <<StoredRect>>, undefined)),
                     stringifyAnnotation(Annotation(Id(2), "underline", 1, <<StoredRect>>,
                                                    Str(<<>>)))>>)}

PutFields == {"title", "author", "journal", "annotations"}

\* Documents a viewer PUTs whole.
ViewerDocuments ==
    {DocA, DocB, PDF("A", <<>>),
     PDF("Z", <<Annotation(Id(3), "highlight", 0, <<StoredRect>>, Str(<<"a">>)),
                Annotation(Id(4), "underline", 0, <<StoredRect>>, undefined)>>)}

\* Bodies of the viewer's PUT requests: the whole document.
ViewerBodies == {stringify(pdf) : pdf \in ViewerDocuments}

\* Bodies of PUT requests: every choice of the four fields (HomePage's edit
\* form sends title and author), and whole documents.
PutBodies ==
    UNION {{body \in [fields -> UNION {FieldValues(f) : f \in PutFields}] :
               \A f \in fields : body[f] \in FieldValues(f)} : fields \in SUBSET PutFields}
    \cup ViewerBodies

ServerTick == steps < MaxRequests /\ steps' = steps + 1 /\ UNCHANGED <<mounted, scroll>>

ServerGet == ServerTick /\ \E id \in PdfIds : GetPdf(id)

\* Any body for a stored id, a whole document for the unknown one.
ServerPut ==
    /\ ServerTick
    /\ \E id \in PdfIds : \E body \in (IF id = "Z" THEN ViewerBodies ELSE PutBodies) : PutPdf(id, body)

ServerDelete == ServerTick /\ \E id \in PdfIds : DeletePdf(id)

NextServer ==
    \/ ServerGet
    \/ ServerPut
    \/ ServerDelete

SpecServer == Init /\ [][NextServer]_vars

(***************************************************************************)
(* Keyboard events.  A keydown on the window reaches both listeners,       *)
(* handleKeyDown and handleUndoShortcut; no key makes both of them act.    *)
(***************************************************************************)
\* A KeyboardEvent; typingTarget says that its target is an input, a textarea
\* or a contentEditable element.
KeyEvent(key, metaKey, ctrlKey, shiftKey, typingTarget) ==
    [key |-> key, metaKey |-> metaKey, ctrlKey |-> ctrlKey, shiftKey |-> shiftKey,
     typingTarget |-> typingTarget]

\* String.prototype.toLowerCase on the keys of KeyEvents.
toLowerCase(key) ==
    CASE key = "H" -> "h"
      [] key = "Z" -> "z"
      [] OTHER -> key

Keys == {"h", "H", "u", "c", "0", "z", "Z"}

\* No modifier, Ctrl, Cmd, and Ctrl with Shift.
Modifiers ==
    {[metaKey |-> FALSE, ctrlKey |-> FALSE, shiftKey |-> FALSE],
     [metaKey |-> FALSE, ctrlKey |-> TRUE, shiftKey |-> FALSE],
     [metaKey |-> TRUE, ctrlKey |-> FALSE, shiftKey |-> FALSE],
     [metaKey |-> FALSE, ctrlKey |-> TRUE, shiftKey |-> TRUE]}

KeyEvents ==
    {KeyEvent(key, m.metaKey, m.ctrlKey, m.shiftKey, typingTarget) :
        key \in Keys, m \in Modifiers, typingTarget \in BOOLEAN}

(***************************************************************************)
(* Manual save, the PUT on its way, and the rest of saveAnnotations after  *)
(* the await.                                                              *)
(***************************************************************************)
\* Mutant of handleSaveAnnotations: the pending autosave timeout is cleared.
handleSaveAnnotations_CancelsTimer ==
    /\ saveAnnotations(currentPdf, FALSE)
    /\ timers' = clearTimeout(timers, autoSaveTimerRef)
    /\ autoSaveTimerRef' = NULL
    /\ lastOp' = Op("handleSaveAnnotations", IF currentPdf = NULL THEN "no-document" ELSE "put")
    /\ lastInput' = NULL
    /\ UNCHANGED <<currentPdf, annotationMode, popupVars, historyRef, canUndo, strictDev, nextId,
                   skipNextAutoSaveRef, message, messageTimers, db, sinceChange, ghostVars>>

\* The Save button: saveAnnotations() with the document of the last render.
handleSaveAnnotations ==
    /\ saveAnnotations(currentPdf, FALSE)
    /\ lastOp' = Op("handleSaveAnnotations", IF currentPdf = NULL THEN "no-document" ELSE "put")
    /\ lastInput' = NULL
    /\ UNCHANGED <<currentPdf, annotationMode, popupVars, historyRef, canUndo, strictDev, nextId,
                   saveVars, message, messageTimers, db, sinceChange, ghostVars>>

\* The server handles the i-th request on its way; requests sent one after
\* the other can arrive in either order.
receivePut(i) ==
    LET request == requests[i]
        result  == appPut(db, request.id, request.body)
    IN  /\ request.response = NULL
        /\ db' = result.pdfs
        /\ requests' = [requests EXCEPT ![i].response = result.response]
        /\ lastOp' = Op("app.put", IF result.response.status = 200 THEN "200" ELSE "404")
        /\ lastInput' = [method |-> "PUT", id |-> request.id, body |-> request.body,
                         response |-> result.response]
        /\ UNCHANGED <<currentPdf, annotationMode, popupVars, historyRef, canUndo, strictDev,
                       nextId, saveVars, message, messageTimers, sinceChange, puts, ghostVars>>

\* The requests other than the i-th.
settled(i) == SubSeq(requests, 1, i - 1) \o SubSeq(requests, i + 1, Len(requests))

messageTicks == (MESSAGE_DELAY * TicksPerSecond) \div 1000

\* axios.put has resolved for the i-th request: the try block after the await.
putResolved(i) ==
    /\ requests[i].response # NULL
    /\ requests[i].response.status = 200
    /\ message' = IF requests[i].auto THEN "auto-saved" ELSE "annotations saved"
    /\ messageTimers' = Append(messageTimers, messageTicks)
    /\ requests' = settled(i)
    /\ lastOp' = Op("saveAnnotations", "resolved")
    /\ lastInput' = requests[i]
    /\ UNCHANGED <<currentPdf, annotationMode, popupVars, historyRef, canUndo, strictDev, nextId,
                   saveVars, db, sinceChange, puts, ghostVars>>

\* Mutant of putRejected: the catch block sends the request again.
putRejected_Retries(i) ==
    /\ message' = IF requests[i].auto THEN "auto-save failed" ELSE "save failed"
    /\ messageTimers' = Append(messageTimers, messageTicks)
    /\ requests' = Append(settled(i), [requests[i] EXCEPT !.response = NULL])
    /\ puts' = Append(puts, [id |-> requests[i].id, body |-> currentPdf, auto |-> requests[i].auto])
    /\ lastOp' = Op("saveAnnotations", "rejected")
    /\ lastInput' = requests[i]
    /\ UNCHANGED <<currentPdf, annotationMode, popupVars, historyRef, canUndo, strictDev, nextId,
                   saveVars, db, sinceChange, ghostVars>>

\* axios.put has rejected for the i-th request: the catch block.  The request
\* failed on its way, was answered 404, or its answer was lost.
putRejected(i) ==
    /\ message' = IF requests[i].auto THEN "auto-save failed" ELSE "save failed"
    /\ messageTimers' = Append(messageTimers, messageTicks)
    /\ requests' = settled(i)
    /\ lastOp' = Op("saveAnnotations", "rejected")
    /\ lastInput' = requests[i]
    /\ UNCHANGED <<currentPdf, annotationMode, popupVars, historyRef, canUndo, strictDev, nextId,
                   saveVars, db, sinceChange, puts, ghostVars>>

\* The callback of the message timeout that is due: setMessage('').
messageTimeout ==
    /\ messageTimers # <<>>
    /\ Head(messageTimers) = 0
    /\ message' = ""
    /\ messageTimers' = Tail(messageTimers)
    /\ lastOp' = Op("messageTimeout", "cleared")
    /\ lastInput' = NULL
    /\ UNCHANGED <<currentPdf, annotationMode, popupVars, historyRef, canUndo, strictDev, nextId,
                   saveVars, requests, db, sinceChange, puts, ghostVars>>

(***************************************************************************)
(* The keydown listeners of the main viewer.                               *)
(***************************************************************************)
\* Mutant of handleKeyDown: no isTypingTarget check.
handleKeyDown_NoTypingCheck(event) ==
    LET key == toLowerCase(event.key)
    IN  /\ annotationMode' = CASE key = "h" -> "highlight"
                                [] key = "u" -> "underline"
                                [] key \in {"c", "0"} -> "cursor"
                                [] OTHER -> annotationMode
        /\ lastOp' = Op("handleKeyDown", IF key \in {"h", "u", "c", "0"} THEN "set" ELSE "ignored")
        /\ lastInput' = event
        /\ UNCHANGED <<currentPdf, popupVars, historyRef, canUndo, strictDev, nextId, saveVars,
                       netVars, sinceChange, puts, ghostVars>>

handleKeyDown(event) ==
    LET key == toLowerCase(event.key)
    IN  /\ annotationMode' = IF event.typingTarget THEN annotationMode
                             ELSE CASE key = "h" -> "highlight"
                                    [] key = "u" -> "underline"
                                    [] key \in {"c", "0"} -> "cursor"
                                    [] OTHER -> annotationMode
        /\ lastOp' = Op("handleKeyDown",
                        IF event.typingTarget THEN "typing"
                        ELSE IF key \in {"h", "u", "c", "0"} THEN "set" ELSE "ignored")
        /\ lastInput' = event
        /\ UNCHANGED <<currentPdf, popupVars, historyRef, canUndo, strictDev, nextId, saveVars,
                       netVars, sinceChange, puts, ghostVars>>

\* (event.metaKey || event.ctrlKey) && !event.shiftKey && key is z
isUndoShortcut(event) ==
    (event.metaKey \/ event.ctrlKey) /\ ~event.shiftKey /\ toLowerCase(event.key) = "z"

\* handleUndoShortcut: on the shortcut, handleUndo(), whatever the target.
handleUndoShortcut(event) ==
    IF ~isUndoShortcut(event)
    THEN /\ lastOp' = Op("handleUndoShortcut", "ignored")
         /\ lastInput' = event
         /\ UNCHANGED <<currentPdf, saveVars, sinceChange, puts, annotationMode, popupVars,
                        historyRef, canUndo, strictDev, netVars, nextId, ghostVars>>
    ELSE IF Len(historyRef) = 0
    THEN /\ undos' = undos + 1
         /\ lastOp' = Op("handleUndoShortcut", "empty")
         /\ lastInput' = event
         /\ UNCHANGED <<currentPdf, saveVars, sinceChange, puts, annotationMode, popupVars,
                        historyRef, canUndo, strictDev, netVars, nextId, log, clean, edits>>
    ELSE LET previousAnnotations == historyRef[Len(historyRef)]
         IN  /\ historyRef' = SubSeq(historyRef, 1, Len(historyRef) - 1)
             /\ canUndo' = (Len(historyRef') > 0)
             /\ currentPdf' = IF currentPdf = NULL THEN NULL
                              ELSE [currentPdf EXCEPT !.annotations = previousAnnotations]
             /\ closeAnnotationPopup
             /\ undos' = undos + 1
             /\ autosaveEffect(skipNextAutoSaveRef, currentPdf')
             /\ observeChange(currentPdf')
             /\ lastOp' = Op("handleUndoShortcut", "restored")
             /\ lastInput' = event
             /\ UNCHANGED <<annotationMode, strictDev, netVars, nextId, log, clean, edits>>

(***************************************************************************)
(* The auto-revert variant of the viewer                                   *)
(* (client/src/pages/PdfViewPage.tsx:235-618): no history and no autosave, *)
(* the neutral mode is 'none', and a selection that creates annotations    *)
(* returns to it.  openAnnotationPopup, setNoteDraft, handleOutsideClick   *)
(* and the toolbar's setAnnotationMode are the code of the main viewer.    *)
(***************************************************************************)
VariantModes == {"none", "highlight", "underline"}

fetchPdfDataVariant(doc) ==
    /\ currentPdf' = doc
    /\ lastOp' = Op("fetchPdfData", "loaded")
    /\ lastInput' = NULL
    /\ UNCHANGED <<annotationMode, popupVars, historyRef, canUndo, strictDev, nextId, saveVars,
                   netVars, sinceChange, puts, ghostVars>>

\* The variant's handleKeyDown: the key as typed, whatever the target.
handleKeyDownVariant(event) ==
    /\ annotationMode' = CASE event.key = "h" -> "highlight"
                           [] event.key = "u" -> "underline"
                           [] event.key = "0" -> "none"
                           [] OTHER -> annotationMode
    /\ lastOp' = Op("handleKeyDown", IF event.key \in {"h", "u", "0"} THEN "set" ELSE "ignored")
    /\ lastInput' = event
    /\ UNCHANGED <<currentPdf, popupVars, historyRef, canUndo, strictDev, nextId, saveVars,
                   netVars, sinceChange, puts, ghostVars>>

\* Mutant of persistSelectionVariant: the mode is kept after the creation.
persistSelectionVariant_NoRevert(selection) ==
    LET outcome == IF annotationMode = "none" THEN "none"
                   ELSE selectionOutcome(selection, annotationMode)
        created == newAnnotations(selection.pageLayers, nonDegenerate(selection.clientRects),
                                  annotationMode, nextId)
    IN  IF outcome # "create"
        THEN /\ lastOp' = Op("persistSelection", outcome)
             /\ lastInput' = selection
             /\ UNCHANGED <<currentPdf, annotationMode, popupVars, historyRef, canUndo, strictDev,
                            nextId, saveVars, netVars, sinceChange, puts, ghostVars>>
        ELSE /\ nextId' = nextId + Len(created)
             /\ currentPdf' = IF currentPdf = NULL THEN NULL
                              ELSE [currentPdf EXCEPT !.annotations = currentPdf.annotations \o created]
             /\ lastOp' = Op("persistSelection", IF currentPdf = NULL THEN "no-document" ELSE "create")
             /\ lastInput' = selection
             /\ UNCHANGED <<annotationMode, popupVars, historyRef, canUndo, strictDev, saveVars, netVars,
                            sinceChange, puts, ghostVars>>

\* The variant's persistSelection, on the mouseup that ends `selection`.
persistSelectionVariant(selection) ==
    LET outcome == IF annotationMode = "none" THEN "none"
                   ELSE selectionOutcome(selection, annotationMode)
        created == newAnnotations(selection.pageLayers, nonDegenerate(selection.clientRects),
                                  annotationMode, nextId)
    IN  IF outcome # "create"
        THEN /\ lastOp' = Op("persistSelection", outcome)
             /\ lastInput' = selection
             /\ UNCHANGED <<currentPdf, annotationMode, popupVars, historyRef, canUndo, strictDev,
                            nextId, saveVars, netVars, sinceChange, puts, ghostVars>>
        ELSE /\ nextId' = nextId + Len(created)
             /\ currentPdf' = IF currentPdf = NULL THEN NULL
                              ELSE [currentPdf EXCEPT !.annotations = currentPdf.annotations \o created]
             /\ annotationMode' = "none"
             /\ lastOp' = Op("persistSelection", IF currentPdf = NULL THEN "no-document" ELSE "create")
             /\ lastInput' = selection
             /\ UNCHANGED <<popupVars, historyRef, canUndo, strictDev, saveVars, netVars,
                            sinceChange, puts, ghostVars>>

\* The variant's handleSaveNote and handleDeleteAnnotation as handlers of the
\* popup's buttons.
popupButtonVariant(handler, pdf) ==
    IF currentPdf = NULL \/ activeAnnotationId = NULL
    THEN /\ lastOp' = Op(handler, "nothing-active")
         /\ lastInput' = NULL
         /\ UNCHANGED <<currentPdf, annotationMode, popupVars, historyRef, canUndo, strictDev,
                        nextId, saveVars, netVars, sinceChange, puts, ghostVars>>
    ELSE /\ currentPdf' = pdf
         /\ closeAnnotationPopup
         /\ lastOp' = Op(handler, "done")
         /\ lastInput' = NULL
         /\ UNCHANGED <<annotationMode, historyRef, canUndo, strictDev, nextId, saveVars, netVars,
                        sinceChange, puts, ghostVars>>

handleSaveNoteInVariant ==
    popupButtonVariant("handleSaveNote", handleSaveNoteVariant(currentPdf, activeAnnotationId, noteDraft))

handleDeleteAnnotationVariant ==
    popupButtonVariant("handleDeleteAnnotation",
                       IF currentPdf = NULL THEN NULL
                       ELSE [currentPdf EXCEPT !.annotations =
                                without(currentPdf.annotations, activeAnnotationId)])

(***************************************************************************)
(* SpecVariant: the variant's handlers for runs of at most MaxVariantSteps *)
(* events.                                                                 *)
(***************************************************************************)
\* The variant as mounted: useState('none').
InitVariant ==
    /\ currentPdf = NULL
    /\ annotationMode = "none"
    /\ activeAnnotationId = NULL
    /\ noteDraft = <<>>
    /\ popupPosition = NULL
    /\ historyRef = <<>>
    /\ canUndo = FALSE
    /\ strictDev \in BOOLEAN
    /\ nextId = 1
    /\ skipNextAutoSaveRef = TRUE
    /\ autoSaveTimerRef = NULL
    /\ timers = {}
    /\ message = ""
    /\ messageTimers = <<>>
    /\ requests = <<>>
    /\ db = InitialStore
    /\ mounted = TRUE
    /\ scroll = [saved |-> NULL, scrollTop |-> Frac(0, 1), scrollHeight |-> 1000,
                 clientHeight |-> 400, thrown |-> FALSE]
    /\ log = <<>>
    /\ undos = 0
    /\ clean = TRUE
    /\ edits = 0
    /\ lastOp = [handler |-> "init", branch |-> "init"]
    /\ lastInput = NULL
    /\ sinceChange = -1
    /\ puts = <<>>
    /\ steps = 0

VariantTick == steps < MaxVariantSteps /\ steps' = steps + 1 /\ UNCHANGED <<mounted, scroll>>

VariantLoad == VariantTick /\ fetchPdfDataVariant(DocA)

VariantModeAction == VariantTick /\ \E mode \in VariantModes : setAnnotationMode(mode)

VariantKeyDown == VariantTick /\ \E event \in KeyEvents : handleKeyDownVariant(event)

\* The text layer is there only while the Viewer is rendered, that is, with a
\* document.
VariantPointerUp ==
    /\ VariantTick
    /\ \E selection \in Selections :
          persistSelectionVariant(IF currentPdf = NULL
                                  THEN [selection EXCEPT !.inTextLayer = FALSE]
                                  ELSE selection)

\* The annotation layer takes clicks in mode 'none' only.
VariantAnnotationClick ==
    /\ VariantTick
    /\ annotationMode = "none"
    /\ \E i \in 1..Len(annotations), anchorRect \in AnchorRects :
           openAnnotationPopup(annotations[i].id, anchorRect)

VariantDraftChange == VariantTick /\ popupShown /\ \E text \in {<<"h">>, <<" ">>} : setNoteDraft(text)

VariantSaveNote == VariantTick /\ popupShown /\ handleSaveNoteInVariant

VariantDeleteAnnotation == VariantTick /\ popupShown /\ handleDeleteAnnotationVariant

VariantMouseDown == VariantTick /\ activeAnnotationId # NULL /\ handleOutsideClick(FALSE)

NextVariant ==
    \/ VariantLoad
    \/ VariantModeAction
    \/ VariantKeyDown
    \/ VariantPointerUp
    \/ VariantAnnotationClick
    \/ VariantDraftChange
    \/ VariantSaveNote
    \/ VariantDeleteAnnotation
    \/ VariantMouseDown

SpecVariant == InitVariant /\ [][NextVariant]_vars

(***************************************************************************)
(* SpecNet: a session that saves.  The user loads document A from the      *)
(* server, adds annotations, undoes and presses Save, at most MaxNetSteps  *)
(* times in all; the clock runs, the autosave timeout fires and the server *)
(* handles the PUTs in any order.                                          *)
(***************************************************************************)
NetTick == steps < MaxNetSteps /\ steps' = steps + 1 /\ UNCHANGED <<mounted, scroll>>

\* The GET of /api/pdfs/A and the handling of its response.
NetLoad == NetTick /\ fetchPdfData(parse(appGet(db, "A").response.body))

NetModeAction == NetTick /\ annotationMode = "cursor" /\ setAnnotationMode("highlight")

NetPointerUp ==
    NetTick /\ currentPdf # NULL /\ persistSelection(SelOne, IF strictDev THEN 2 ELSE 1)

NetUndo == NetTick /\ handleUndo

NetSave == NetTick /\ handleSaveAnnotations

NetReceive == Still /\ \E i \in 1..Len(requests) : receivePut(i)

NetElapse == Still /\ Elapse

NetTimeout == Still /\ \E t \in timers : t.remaining = 0 /\ autoSaveTimeout(t)

NextNet ==
    \/ NetLoad
    \/ NetModeAction
    \/ NetPointerUp
    \/ NetUndo
    \/ NetSave
    \/ NetReceive
    \/ NetElapse
    \/ NetTimeout

SpecNet == Init /\ [][NextNet]_vars

(***************************************************************************)
(* SpecSettle: the outcome of the PUTs.  The user loads document A, adds   *)
(* an annotation and presses Save, at most MaxSettleSteps times in all;    *)
(* the clock runs, the autosave timeout fires, the server handles the      *)
(* PUTs, each PUT resolves or rejects and the status message is cleared.   *)
(***************************************************************************)
SettleTick == steps < MaxSettleSteps /\ steps' = steps + 1 /\ UNCHANGED <<mounted, scroll>>

SettleLoad == SettleTick /\ currentPdf = NULL /\ fetchPdfData(parse(appGet(db, "A").response.body))

SettleModeAction == SettleTick /\ annotationMode = "cursor" /\ setAnnotationMode("highlight")

SettlePointerUp ==
    SettleTick /\ currentPdf # NULL /\ persistSelection(SelOne, IF strictDev THEN 2 ELSE 1)

SettleSave == SettleTick /\ handleSaveAnnotations

SettleReceive == Still /\ \E i \in 1..Len(requests) : receivePut(i)

SettleResolved == Still /\ \E i \in 1..Len(requests) : putResolved(i)

SettleRejected == Still /\ \E i \in 1..Len(requests) : putRejected(i)

SettleElapse == Still /\ Elapse

SettleTimeout == Still /\ \E t \in timers : t.remaining = 0 /\ autoSaveTimeout(t)

SettleMessageTimeout == Still /\ messageTimeout

NextSettle ==
    \/ SettleLoad
    \/ SettleModeAction
    \/ SettlePointerUp
    \/ SettleSave
    \/ SettleReceive
    \/ SettleResolved
    \/ SettleRejected
    \/ SettleElapse
    \/ SettleTimeout
    \/ SettleMessageTimeout

SpecSettle == Init /\ [][NextSettle]_vars

(***************************************************************************)
(* SpecKeys: the main viewer with its keyboard.  Every handler of the      *)
(* page, the two keydown listeners and the Save button with the outcome of *)
(* its PUT, for runs of at most MaxKeySteps events on document A.          *)
(***************************************************************************)
KeysTick == steps < MaxKeySteps /\ steps' = steps + 1 /\ UNCHANGED <<mounted, scroll>>

KeysLoad == KeysTick /\ fetchPdfData(DocA)

KeysModeAction == KeysTick /\ \E mode \in Modes : setAnnotationMode(mode)

\* Keys with and without Cmd, typed into the page or into a text input.
KeysKeyDown ==
    /\ KeysTick
    /\ \E event \in KeyEvents : ~event.ctrlKey /\ handleKeyDown(event)

\* The undo shortcut and its near misses (Shift, no modifier, another key).
KeysUndoShortcut ==
    /\ KeysTick
    /\ \E event \in KeyEvents : event.key \in {"z", "Z", "h"} /\ handleUndoShortcut(event)

KeysPointerUp ==
    KeysTick /\ currentPdf # NULL /\ persistSelection(SelOne, IF strictDev THEN 2 ELSE 1)

KeysAnnotationClick ==
    /\ KeysTick
    /\ \E i \in 1..Len(annotations), anchorRect \in AnchorRects :
           openAnnotationPopup(annotations[i].id, anchorRect)

KeysDraftChange == KeysTick /\ popupShown /\ setNoteDraft(<<"b", " ">>)

KeysSaveNote == KeysTick /\ popupShown /\ handleSaveNote

KeysDeleteAnnotation == KeysTick /\ popupShown /\ handleDeleteAnnotation

KeysClearNote == KeysTick /\ clearNoteShown /\ handleClearNote

KeysMouseDown == KeysTick /\ activeAnnotationId # NULL /\ handleOutsideClick(FALSE)

\* The Undo button is disabled while canUndo is false.
KeysUndo == KeysTick /\ canUndo /\ handleUndo

KeysSave == KeysTick /\ handleSaveAnnotations

KeysReceive == KeysTick /\ \E i \in 1..Len(requests) : receivePut(i)

KeysSettled ==
    /\ KeysTick
    /\ \E i \in 1..Len(requests) : putResolved(i) \/ putRejected(i)

NextKeys ==
    \/ KeysLoad
    \/ KeysModeAction
    \/ KeysKeyDown
    \/ KeysUndoShortcut
    \/ KeysPointerUp
    \/ KeysAnnotationClick
    \/ KeysDraftChange
    \/ KeysSaveNote
    \/ KeysDeleteAnnotation
    \/ KeysClearNote
    \/ KeysMouseDown
    \/ KeysUndo
    \/ KeysSave
    \/ KeysReceive
    \/ KeysSettled

SpecKeys == Init /\ [][NextKeys]_vars

\* C1: from a freshly loaded document with annotations A0 and an empty history,
\* after K collection-changing mutations (1 <= K <= 50) and no Undo in between,
\* one Undo makes the live collection the one before the K-th mutation, and K
\* consecutive Undos make it A0.  log[i] is the collection before the i-th
\* mutation, so log[1] = A0.
C1_UndoRestoresPriorStates ==
    (currentPdf # NULL /\ clean /\ Len(log) >= 1 /\ Len(log) <= HISTORY_LIMIT) =>
        /\ undos = 1 => annotations = log[Len(log)]
        /\ undos = Len(log) => annotations = log[1]

\* C2: in every reachable state the history stack holds at most 50 snapshots.
C2_HistoryBounded == Len(historyRef) <= HISTORY_LIMIT

\* C2 witness: a mutation has just pushed onto a full stack, evicting the oldest.
C2_Witness ==
    /\ lastOp = Op("persistSelection", "create")
    /\ Len(log) > HISTORY_LIMIT
    /\ Len(historyRef) = HISTORY_LIMIT

\* C3: after 60 mutations taking the collection through S0..S60 (log[i] = S(i-1))
\* and then Undo calls, the j-th Undo for j <= 50 restores S(60-j), the Undos
\* after the 50th change nothing so the collection stays at S10, and none of
\* S0..S9 is ever restored.
C3_EvictionOrder ==
    (currentPdf # NULL /\ clean /\ Len(log) = HISTORY_LIMIT + 10 /\ undos >= 1) =>
        /\ undos <= HISTORY_LIMIT => annotations = log[Len(log) - undos + 1]
        /\ undos > HISTORY_LIMIT => annotations = log[11]
        /\ \A i \in 1..10 : annotations # log[i]

\* C4: Undo when the history stack is empty changes nothing: the live
\* annotations, the history stack, the popup state and the mode are unchanged
\* and canUndo stays false.
C4_UndoOnEmptyIsNoop ==
    [][(lastOp'.handler = "handleUndo" /\ Len(historyRef) = 0) =>
          /\ UNCHANGED <<currentPdf, saveVars, sinceChange, puts, historyRef, activeAnnotationId, noteDraft, popupPosition,
                         annotationMode>>
          /\ canUndo = FALSE
          /\ canUndo' = FALSE]_vars

\* C4 witness: Undo has run on an empty history with a document loaded and the
\* popup open.
C4_Witness ==
    /\ lastOp = Op("handleUndo", "empty")
    /\ currentPdf # NULL
    /\ popupShown
    /\ historyRef = <<>>

\* C5: in every reachable state canUndo is true exactly when the history stack
\* is non-empty.
C5_CanUndoIffNonEmpty == canUndo = (Len(historyRef) > 0)

\* C5 witness: an Undo has popped the last snapshot and canUndo is false again.
C5_Witness ==
    /\ lastOp = Op("handleUndo", "restored")
    /\ historyRef = <<>>
    /\ canUndo = FALSE

\* A draft and a stored note are the same note when they agree after trimming
\* the draft, an empty or blank stored note counting as no note.
sameNote(stored, draft) ==
    IF trim(draft) = <<>>
    THEN ~stored.defined \/ trim(stored.value) = <<>>
    ELSE stored.defined /\ stored.value = trim(draft)

\* C6: committing a draft that is the same note as the active annotation's
\* current note leaves the live annotations and the history unchanged.
C6_SameNoteCommitIsNoop ==
    [][(/\ lastOp'.handler = "handleSaveNote"
        /\ currentPdf # NULL
        /\ findAnnotation(annotations, activeAnnotationId) # NULL
        /\ sameNote(findAnnotation(annotations, activeAnnotationId).note, noteDraft))
       => UNCHANGED <<currentPdf, saveVars, sinceChange, puts, historyRef, canUndo>>]_vars

\* C7: Delete with an active id that is not in the live collection leaves the
\* collection unchanged and pushes no history entry.
C7_DeleteMissingIsNoop ==
    [][(/\ lastOp'.handler = "handleDeleteAnnotation"
        /\ findAnnotation(annotations, activeAnnotationId) = NULL)
       => UNCHANGED <<currentPdf, saveVars, sinceChange, puts, historyRef, canUndo>>]_vars

\* C7 witness: Delete has run for an id that the loaded, non-empty collection
\* does not hold.
C7_Witness ==
    /\ lastOp = Op("handleDeleteAnnotation", "missing")
    /\ currentPdf # NULL
    /\ annotations # <<>>

\* C8 (as amended): an Undo on a history of length n > 0 leaves exactly the
\* first n-1 entries, unchanged and in order, and makes the popped entry the
\* live collection; it pushes nothing, so no entry records the collection that
\* was live before it.
C8_UndoOnlyPops ==
    [][(lastOp'.handler = "handleUndo" /\ Len(historyRef) > 0) =>
          /\ historyRef' = SubSeq(historyRef, 1, Len(historyRef) - 1)
          /\ annotations' = historyRef[Len(historyRef)]]_vars

\* C8 witness: an Undo has popped one snapshot and left others on the stack.
C8_Witness ==
    /\ lastOp = Op("handleUndo", "restored")
    /\ Len(historyRef) >= 1
    /\ undos = 1

\* C8 (as stated): besides popping only, after an Undo the collection that was
\* live before it cannot be brought back by a history operation: no remaining
\* entry of the stack equals it.
C8_NoWayBack ==
    [][(lastOp'.handler = "handleUndo" /\ Len(historyRef) > 0) =>
          /\ historyRef' = SubSeq(historyRef, 1, Len(historyRef) - 1)
          /\ \A i \in 1..Len(historyRef') : historyRef'[i] # annotations]_vars

\* C9: a snapshot on the history stack never changes.  In every step each entry
\* of the stack either stays, with the same content and in the same order, or
\* leaves the stack (popped by Undo, evicted from the bottom of a full stack,
\* dropped by a load); every entry that is new equals the live collection as it
\* was before the step.
C9_SnapshotsNeverChange ==
    [][LET n  == Len(historyRef)
           n2 == Len(historyRef')
       IN  \/ historyRef' = historyRef
           \/ lastOp'.handler = "fetchPdfData" /\ n2 = 0
           \/ /\ lastOp'.handler = "handleUndo"
              /\ n2 = n - 1
              /\ \A i \in 1..n2 : historyRef'[i] = historyRef[i]
           \/ \E d \in 0..n :
                 /\ n2 > n - d
                 /\ d > 0 => n2 = HISTORY_LIMIT
                 /\ \A i \in 1..(n - d) : historyRef'[i] = historyRef[i + d]
                 /\ \A i \in (n - d + 1)..n2 : historyRef'[i] = annotations]_vars

\* C9 witness: a note commit has changed the live collection while an earlier
\* snapshot was on the stack.
C9_Witness ==
    /\ lastOp = Op("handleSaveNote", "changed")
    /\ Len(historyRef) >= 2
    /\ historyRef[1] # historyRef[2]

\* C10: a pointer-up in the neutral mode, whatever the selection, and a
\* pointer-up with a collapsed selection, whatever the mode, create nothing: the
\* live annotations and the history are unchanged.  The same for the variant's
\* handleTextSelection in its neutral mode 'none'.
C10_NeutralOrCollapsedCreatesNothing ==
    [][/\ lastOp'.handler = "persistSelection" =>
             \A selection \in Selections, runs \in {1, 2} :
                 (/\ annotationMode = "cursor" \/ selection.isCollapsed
                  /\ persistSelection(selection, runs))
                 => UNCHANGED <<currentPdf, saveVars, sinceChange, puts, historyRef, canUndo>>
       /\ \A range \in SelectionRanges :
             handleTextSelection("none", currentPdf, range, Id(nextId)) = currentPdf]_vars

\* C10 witness: pointer-up has run in cursor mode on a loaded, non-empty document.
C10_Witness ==
    /\ lastOp = Op("persistSelection", "cursor")
    /\ annotationMode = "cursor"
    /\ annotations # <<>>

\* The annotations the last mutation appended to the collection it found.
lastCreated == SubSeq(annotations, Len(log[Len(log)]) + 1, Len(annotations))

\* A pointer-up in highlight or underline mode has just been handled and no
\* Undo has followed it.
afterPointerUp ==
    /\ lastOp.handler = "persistSelection"
    /\ annotationMode \in {"highlight", "underline"}

\* The rect lies entirely inside the page's bounding box.
insidePage(page, rect) ==
    /\ rect.left >= page.rect.left
    /\ rect.left + rect.width <= page.rect.left + page.rect.width
    /\ rect.top >= page.rect.top
    /\ rect.top + rect.height <= page.rect.top + page.rect.height

\* The rect is a fragment of zero width or zero height.
degenerate(rect) == rect.width = 0 \/ rect.height = 0

\* The members of a sequence of rects that are not degenerate, in order.
proper(rects) == SelectSeq(rects, LAMBDA rect : ~degenerate(rect))

\* C11: a pointer-up in highlight or underline mode over a selection whose
\* rects all lie entirely inside the box of one page p, at least one of them
\* not degenerate, creates exactly one annotation: on page p, of the mode's
\* type, with the conversions of the non-degenerate rects in input order.
C11_OnePageOneAnnotation ==
    afterPointerUp =>
        \A k \in 1..Len(lastInput.pageLayers) :
            LET page == lastInput.pageLayers[k]
                kept == proper(lastInput.clientRects)
            IN  (/\ \A i \in 1..Len(lastInput.clientRects) :
                        insidePage(page, lastInput.clientRects[i])
                 /\ kept # <<>>)
                =>
                /\ lastOp.branch = "create"
                /\ Len(lastCreated) = 1
                /\ lastCreated[1].pageIndex = page.pageIndex
                /\ lastCreated[1].type = annotationMode
                /\ lastCreated[1].rects = [i \in 1..Len(kept) |-> relativeRect(page, kept[i])]

\* C11 witness: two lines and a zero-width fragment between them, all inside
\* page 0, became one underline annotation with the two lines' rects in order.
C11_Witness ==
    /\ afterPointerUp
    /\ annotationMode = "underline"
    /\ lastInput.pageLayers = <<Page0, Page1>>
    /\ lastInput.clientRects = <<DOMRect(30, 20, 100, 5), DOMRect(10, 20, 0, 5), DOMRect(10, 10, 50, 5)>>
    /\ Len(lastCreated) = 1
    /\ Len(lastCreated[1].rects) = 2
    /\ lastCreated[1].rects[1] = relativeRect(Page0, DOMRect(30, 20, 100, 5))

\* The centre point of the rect lies in the page's box (sides included).
centreIn(page, rect) ==
    /\ 2 * page.rect.left <= 2 * rect.left + rect.width
    /\ 2 * rect.left + rect.width <= 2 * page.rect.left + 2 * page.rect.width
    /\ 2 * page.rect.top <= 2 * rect.top + rect.height
    /\ 2 * rect.top + rect.height <= 2 * page.rect.top + 2 * page.rect.height

\* The rect is assigned to the k-th page layer: the first whose box contains
\* its centre.
assignedTo(pageLayers, k, rect) ==
    /\ centreIn(pageLayers[k], rect)
    /\ \A j \in 1..(k - 1) : ~centreIn(pageLayers[j], rect)

\* The page layers that are assigned at least one of the rects.
pagesHit(pageLayers, rects) ==
    {k \in 1..Len(pageLayers) : \E i \in 1..Len(rects) : assignedTo(pageLayers, k, rects[i])}

\* C12: a pointer-up in highlight or underline mode over a selection whose
\* non-degenerate rects are assigned to N >= 1 pages (each rect to the page
\* whose box contains its centre, to none when no box does) creates exactly N
\* annotations with pairwise distinct pageIndex, one per such page, each
\* holding the conversions of exactly the rects assigned to its page, in
\* input order.
C12_OneAnnotationPerPage ==
    afterPointerUp =>
        LET pageLayers == lastInput.pageLayers
            kept       == proper(lastInput.clientRects)
            hit        == pagesHit(pageLayers, kept)
        IN  hit # {} =>
                /\ lastOp.branch = "create"
                /\ Len(lastCreated) = Cardinality(hit)
                /\ \A a, b \in 1..Len(lastCreated) :
                       a # b => lastCreated[a].pageIndex # lastCreated[b].pageIndex
                /\ \A k \in hit :
                       \E a \in 1..Len(lastCreated) :
                           LET mine == SelectSeq(kept, LAMBDA rect : assignedTo(pageLayers, k, rect))
                           IN  /\ lastCreated[a].pageIndex = pageLayers[k].pageIndex
                               /\ lastCreated[a].rects =
                                      [i \in 1..Len(mine) |-> relativeRect(pageLayers[k], mine[i])]

\* C12 witness: lines on page 1 and page 0 and a line beside the pages became
\* two annotations, the one for page 0 first.
C12_Witness ==
    /\ afterPointerUp
    /\ lastInput.pageLayers = <<Page0, Page1>>
    /\ lastInput.clientRects = <<DOMRect(10, 1010, 50, 5), DOMRect(300, 10, 50, 5), DOMRect(10, 10, 50, 5)>>
    /\ lastOp.branch = "create"
    /\ Len(lastCreated) = 2
    /\ lastCreated[1].pageIndex = 0
    /\ lastCreated[2].pageIndex = 1
    /\ Len(lastCreated[1].rects) = 1
    /\ Len(lastCreated[2].rects) = 1

\* Comparisons of exact fractions (denominators are positive).
fracLeq(a, b) == a.num * b.den <= b.num * a.den

fracSum(a, b) == [num |-> a.num * b.den + b.num * a.den, den |-> a.den * b.den]

\* The fraction equals n / d (d > 0).
fracIs(a, n, d) == a.den > 0 /\ a.num * d = n * a.den

\* The stored rect lies within its page: percentages between 0 and 100, and a
\* positive extent.
withinPage(rect) ==
    /\ fracLeq(Frac(0, 1), rect.x)
    /\ fracLeq(Frac(0, 1), rect.y)
    /\ fracLeq(fracSum(rect.x, rect.width), Frac(100, 1))
    /\ fracLeq(fracSum(rect.y, rect.height), Frac(100, 1))
    /\ ~fracLeq(rect.width, Frac(0, 1))
    /\ ~fracLeq(rect.height, Frac(0, 1))

\* C13: every rect of every annotation a pointer-up creates lies within its
\* page: 0 <= x, 0 <= y, x + width <= 100, y + height <= 100, width > 0 and
\* height > 0, whatever non-degenerate client rects and page layout the
\* selection has.
C13_RectsWithinPage ==
    (afterPointerUp /\ lastOp.branch = "create") =>
        \A a \in 1..Len(lastCreated) :
            \A i \in 1..Len(lastCreated[a].rects) : withinPage(lastCreated[a].rects[i])

\* C14: every rect a pointer-up stores is the conversion of the client rect it
\* comes from: x = (rect.left - page.left) / page.width * 100,
\* y = (rect.top - page.top) / page.height * 100, width = rect.width /
\* page.width * 100, height = rect.height / page.height * 100; and the client
\* rect {left 10, top 10, width 50, height 5} in the page box {left 0, top 0,
\* width 200, height 1000} is stored as {x 5, y 1, width 25, height 0.5}.
C14_Conversion ==
    (afterPointerUp /\ lastOp.branch = "create") =>
        LET pageLayers == lastInput.pageLayers
            kept       == proper(lastInput.clientRects)
        IN  /\ \A k \in pagesHit(pageLayers, kept) :
                   LET page == pageLayers[k].rect
                       mine == SelectSeq(kept, LAMBDA rect : assignedTo(pageLayers, k, rect))
                   IN  \E a \in 1..Len(lastCreated) :
                           /\ lastCreated[a].pageIndex = pageLayers[k].pageIndex
                           /\ Len(lastCreated[a].rects) = Len(mine)
                           /\ \A i \in 1..Len(mine) :
                                  LET stored == lastCreated[a].rects[i]
                                  IN  /\ fracIs(stored.x, (mine[i].left - page.left) * 100, page.width)
                                      /\ fracIs(stored.y, (mine[i].top - page.top) * 100, page.height)
                                      /\ fracIs(stored.width, mine[i].width * 100, page.width)
                                      /\ fracIs(stored.height, mine[i].height * 100, page.height)
            /\ (/\ lastInput.clientRects = <<DOMRect(10, 10, 50, 5)>>
                /\ pageLayers # <<>>
                /\ pageLayers[1].rect = DOMRect(0, 0, 200, 1000))
               =>
               /\ fracIs(lastCreated[1].rects[1].x, 5, 1)
               /\ fracIs(lastCreated[1].rects[1].y, 1, 1)
               /\ fracIs(lastCreated[1].rects[1].width, 25, 1)
               /\ fracIs(lastCreated[1].rects[1].height, 1, 2)

\* C14 witness: two lines have been stored on a page whose box does not start
\* at the origin.
C14_Witness ==
    /\ afterPointerUp
    /\ lastOp.branch = "create"
    /\ lastInput.clientRects = <<DOMRect(10, 10, 50, 5), DOMRect(30, 20, 100, 5)>>
    /\ lastInput.pageLayers = <<Page3, Page4>>
    /\ Len(lastCreated) = 1
    /\ lastCreated[1].rects[2].x = Frac(5, 1)

\* The selection yields no annotation: every rect is degenerate, or there are
\* no page layers, or no page's box contains the centre of any rect.
yieldsNothing(selection) ==
    pagesHit(selection.pageLayers, proper(selection.clientRects)) = {}

\* C15: a pointer-up in highlight or underline mode over a selection that
\* yields no annotation mutates nothing: the document, the history stack,
\* canUndo and the mode are unchanged, and no autosave timer is armed or
\* cleared.
C15_NoAnnotationNoMutation ==
    [][(/\ lastOp'.handler = "persistSelection"
        /\ annotationMode \in {"highlight", "underline"}
        /\ yieldsNothing(lastInput'))
       => UNCHANGED <<currentPdf, historyRef, canUndo, annotationMode,
                      skipNextAutoSaveRef, autoSaveTimerRef, timers>>]_vars

\* C15 witness: a pointer-up in underline mode over a zero-width fragment and
\* a line beside the pages.
C15_Witness ==
    /\ afterPointerUp
    /\ currentPdf # NULL
    /\ annotationMode = "underline"
    /\ lastOp.branch = "no-annotations"
    /\ lastInput.pageLayers = <<Page3, Page4>>
    /\ lastInput.clientRects = <<DOMRect(10, 20, 0, 5), DOMRect(300, 10, 50, 5)>>

\* The popup is closed: all three of its fields are cleared.
popupCleared == activeAnnotationId = NULL /\ popupPosition = NULL /\ noteDraft = <<>>

\* The text is empty or consists of whitespace only.
blank(text) == \A i \in 1..Len(text) : text[i] \in Whitespace

\* The text without its leading and trailing whitespace: the longest part of
\* it that neither starts nor ends with whitespace.
trimmed(text) ==
    IF blank(text) THEN <<>>
    ELSE LET first == CHOOSE i \in 1..Len(text) :
                         text[i] \notin Whitespace /\ \A j \in 1..(i - 1) : text[j] \in Whitespace
             last  == CHOOSE i \in 1..Len(text) :
                         text[i] \notin Whitespace /\ \A j \in (i + 1)..Len(text) : text[j] \in Whitespace
         IN  SubSeq(text, first, last)

\* The stored note as text, no note being the empty text.
noteText(note) == IF note.defined THEN note.value ELSE <<>>

\* The collection with the note of annotation `id` replaced by the committed
\* text: absent when the text is empty.
committed(as, id, text) ==
    [i \in 1..Len(as) |->
        IF as[i].id = id
        THEN [as[i] EXCEPT !.note = IF text = <<>> THEN undefined ELSE Str(text)]
        ELSE as[i]]

\* C16: committing the popup on an annotation of the collection with a draft
\* whose trimmed value differs from the stored note sets that annotation's
\* note to the trimmed draft, or to absent when the trimmed draft is empty
\* (never to an empty or whitespace-only string), leaves every other
\* annotation and the order unchanged, and closes the popup.  The variant's
\* handleSaveNote sets the same note.
C16_CommitStoresTrimmedDraft ==
    [][(/\ lastOp'.handler = "handleSaveNote"
        /\ currentPdf # NULL
        /\ activeAnnotationId # NULL
        /\ \E i \in 1..Len(annotations) :
               /\ annotations[i].id = activeAnnotationId
               /\ noteText(annotations[i].note) # trimmed(noteDraft))
       =>
       /\ annotations' = committed(annotations, activeAnnotationId, trimmed(noteDraft))
       /\ \A i \in 1..Len(annotations') :
              annotations'[i].note.defined => ~blank(annotations'[i].note.value)
                                              \/ annotations'[i].note = annotations[i].note
       /\ popupCleared'
       /\ handleSaveNoteVariant(currentPdf, activeAnnotationId, noteDraft).annotations
              = committed(annotations, activeAnnotationId, trimmed(noteDraft))]_vars

\* C16 witness: the draft "b " has been committed as the note "b" on the first
\* of two annotations.
C16_Witness ==
    /\ lastOp = Op("handleSaveNote", "changed")
    /\ Len(annotations) = 2
    /\ annotations[1].note = Str(<<"b">>)
    /\ popupCleared

\* C17: opening the popup on an annotation sets the active id to that
\* annotation, the draft to its stored note (empty when it has none) whatever
\* the draft was before, and the anchor to (rect.left + rect.width / 2,
\* rect.bottom + 8) of the clicked rect.
C17_OpenSeedsDraft ==
    [][lastOp'.handler = "openAnnotationPopup" =>
          LET anchorRect == lastInput'.anchorRect
          IN  /\ activeAnnotationId' = lastInput'.annotationId
              /\ \E i \in 1..Len(annotations) :
                     /\ annotations[i].id = activeAnnotationId'
                     /\ noteDraft' = noteText(annotations[i].note)
              /\ fracIs(popupPosition'.x, 2 * anchorRect.left + anchorRect.width, 2)
              /\ popupPosition'.y = anchorRect.top + anchorRect.height + 8]_vars

\* C17 witness: the popup has been opened again on an annotation whose note
\* "b" was committed through an earlier popup.
C17_Witness ==
    /\ lastOp = Op("openAnnotationPopup", "opened")
    /\ edits >= 1
    /\ noteDraft = <<"b">>
    /\ popupShown

\* C18: a pointer-down outside the open popup closes it without committing:
\* the active id, the draft and the anchor are cleared, and the document and
\* the history stack are unchanged.
C18_OutsideClickCloses ==
    [][(/\ lastOp'.handler = "handleOutsideClick"
        /\ popupShown
        /\ ~lastInput'.insidePopup)
       =>
       /\ popupCleared'
       /\ UNCHANGED <<currentPdf, historyRef, canUndo>>]_vars

\* C18 witness: the popup has been closed by a pointer-down outside it, in a
\* session with a history.
C18_Witness ==
    /\ lastOp = Op("handleOutsideClick", "closed")
    /\ lastInput = [insidePopup |-> FALSE]
    /\ historyRef # <<>>
    /\ popupCleared

\* C19: Delete from the popup on an annotation of the collection removes
\* exactly that annotation and keeps the others in their order, pushes the
\* pre-delete collection onto the history, and closes the popup.
C19_DeleteRemovesActive ==
    [][(/\ lastOp'.handler = "handleDeleteAnnotation"
        /\ currentPdf # NULL
        /\ activeAnnotationId # NULL
        /\ \E i \in 1..Len(annotations) : annotations[i].id = activeAnnotationId)
       =>
       /\ \E i \in 1..Len(annotations) :
              /\ annotations[i].id = activeAnnotationId
              /\ annotations' = SubSeq(annotations, 1, i - 1)
                                    \o SubSeq(annotations, i + 1, Len(annotations))
       /\ Len(historyRef') >= 1
       /\ historyRef'[Len(historyRef')] = annotations
       /\ Len(historyRef) < HISTORY_LIMIT => historyRef' = Append(historyRef, annotations)
       /\ popupCleared']_vars

\* C19 witness: the second of three annotations has been deleted.
C19_Witness ==
    /\ lastOp = Op("handleDeleteAnnotation", "deleted")
    /\ Len(annotations) = 2
    /\ annotations[1].id = Id(102)
    /\ annotations[2].id = Id(1)
    /\ historyRef # <<>>

\* A handler has just changed the document after the load: the step is a
\* render with a new document object that is not the load's.
changeStep == sinceChange' = 0 /\ lastOp'.handler \notin {"clock", "autoSaveTimeout", "fetchPdfData"}

\* C20: autosave is debounced.  At most one autosave timeout is pending at any
\* time.  Every change of the document after the load leaves exactly one
\* pending timeout, due one delay later and holding the changed document, so
\* the timeout of the change before is cancelled.  While less than the delay
\* has passed since the last change that timeout is still pending and due one
\* delay after the change; more than the delay after the last change none is
\* pending.  A PUT issued after a change is issued exactly one delay after the
\* last change, by the only pending timeout, and leaves none pending: a run
\* of changes less than the delay apart is followed by exactly one PUT.
C20_Debounced ==
    /\ [](Cardinality(timers) <= 1)
    /\ []((sinceChange >= 0 /\ sinceChange < delayTicks) =>
              \E t \in timers : timers = {t} /\ t.remaining = delayTicks - sinceChange)
    /\ [](sinceChange > delayTicks => timers = {})
    /\ [][changeStep =>
             timers' = {[handle |-> autoSaveTimerRef', remaining |-> delayTicks, pdf |-> currentPdf']}]_vars
    /\ [][(puts' # puts /\ sinceChange >= 0) =>
             /\ sinceChange = delayTicks
             /\ Len(puts') = Len(puts) + 1
             /\ timers' = {}]_vars

\* C20 witness: two annotations were added less than the delay apart and one
\* PUT, holding both, has been issued.
C20_Witness ==
    /\ lastOp = Op("autoSaveTimeout", "put")
    /\ sinceChange = delayTicks
    /\ Len(log) = 2
    /\ undos = 0
    /\ Len(puts) = 1
    /\ puts[1].body = currentPdf
    /\ timers = {}

\* C21: loading a document never triggers an autosave.  From the load until
\* the user changes the document no autosave timeout is pending and no PUT is
\* issued, for the first load and for every later one.
C21_LoadTriggersNoAutosave ==
    /\ []((currentPdf # NULL /\ sinceChange = -1) => timers = {})
    /\ [][(sinceChange' = -1) => puts' = puts]_vars

\* The record of `id` in a store; only used where there is one.
recordOf(pdfs, id) == pdfs[findIndex(pdfs, id)]

\* Records of the store other than `id`'s are the same in both stores, in the
\* same places.
othersUnchanged(before, after, id) ==
    /\ Len(after) = Len(before)
    /\ \A i \in 1..Len(before) : i # findIndex(before, id) => after[i] = before[i]

\* C24: a PUT on a stored id merges into the record.  Each of title, author,
\* journal and annotations takes the body's value when the body provides one
\* and keeps the stored value when the body omits it (or gives null); id,
\* path, filename, originalName and createdAt keep their stored values whatever
\* the body holds; every other record is unchanged; the response is the
\* updated record.
C24_PutMerges ==
    [][(lastOp'.handler = "app.put" /\ findIndex(db, lastInput'.id) # 0) =>
          LET id      == lastInput'.id
              body    == lastInput'.body
              stored  == recordOf(db, id)
              updated == recordOf(db', id)
          IN  /\ findIndex(db', id) = findIndex(db, id)
              /\ \A f \in PutFields :
                    updated[f] = IF f \in DOMAIN body /\ body[f] # NULL THEN body[f]
                                 ELSE stored[f]
              /\ \A f \in {"id", "path", "filename", "originalName", "createdAt"} :
                    updated[f] = stored[f]
              /\ DOMAIN updated = DOMAIN stored
              /\ othersUnchanged(db, db', id)
              /\ lastInput'.response = [status |-> 200, body |-> updated]]_vars

\* C24 witness: HomePage's edit form has PUT a title and an author for A after
\* a viewer had stored no annotations for it; the record has the new title,
\* the empty author and the journal and annotations it had.
C24_Witness ==
    /\ lastOp = Op("app.put", "200")
    /\ lastInput.id = "A"
    /\ DOMAIN lastInput.body = {"title", "author"}
    /\ recordOf(db, "A").title = JStr("u")
    /\ recordOf(db, "A").author = JStr("")
    /\ recordOf(db, "A").journal = InitialStore[1].journal
    /\ recordOf(db, "A").annotations = JArr(<<>>)
    /\ recordOf(db, "A").path = InitialStore[1].path
    /\ db[2] = InitialStore[2]

\* A GET of the id of the successful PUT answered just before it.
getAfterPut ==
    /\ lastOp = Op("app.put", "200")
    /\ lastOp'.handler = "app.get"
    /\ lastInput'.id = lastInput.id

\* C25: annotations round-trip through the server.  After a successful PUT
\* whose body provides the annotation sequence A, a GET of the same id answers
\* 200 with annotations equal to A, the empty sequence included; and for a PUT
\* of a whole document by the viewer, the annotations the viewer reads from the
\* GET equal the ones it sent, a note that was absent being absent again and an
\* empty note an empty note.
C25_AnnotationsRoundTrip ==
    [][(getAfterPut /\ "annotations" \in DOMAIN lastInput.body /\ lastInput.body.annotations # NULL) =>
          /\ lastInput'.response.status = 200
          /\ lastInput'.response.body.annotations = lastInput.body.annotations
          /\ \A pdf \in ViewerDocuments :
                lastInput.body = stringify(pdf) =>
                    parse(lastInput'.response.body).annotations = pdf.annotations]_vars

\* C25 witness: the empty sequence was PUT for A, which had an annotation, and
\* the GET has answered with the empty sequence.
C25_Witness ==
    /\ lastOp = Op("app.get", "200")
    /\ lastInput.id = "A"
    /\ lastInput.response.body.annotations = JArr(<<>>)
    /\ parse(lastInput.response.body).annotations = <<>>
    /\ InitialStore[1].annotations # JArr(<<>>)

\* C25 witness of the absent note: B, stored with one empty and one absent
\* note, is read back with the same notes.
C25_WitnessNotes ==
    /\ lastOp = Op("app.get", "200")
    /\ lastInput.id = "B"
    /\ parse(lastInput.response.body) = DocB
    /\ DocB.annotations[1].note = Str(<<>>)
    /\ DocB.annotations[2].note = undefined

\* C26: a GET, PUT or DELETE of an id the store does not hold answers 404 and
\* leaves the store as it was.  A DELETE of a stored id answers 200 and removes
\* that record and no other, so that a GET of the id answers 404 from then on.
C26_UnknownIdIs404 ==
    /\ [][(lastOp'.handler \in {"app.get", "app.put", "app.delete"}
              /\ findIndex(db, lastInput'.id) = 0) =>
             /\ lastInput'.response.status = 404
             /\ db' = db]_vars
    /\ [][(lastOp'.handler = "app.delete" /\ findIndex(db, lastInput'.id) # 0) =>
             /\ lastInput'.response.status = 200
             /\ findIndex(db', lastInput'.id) = 0
             /\ appGet(db', lastInput'.id).response.status = 404
             /\ Len(db') = Len(db) - 1
             /\ \A i \in 1..Len(db) :
                   db[i].id # lastInput'.id => recordOf(db', db[i].id) = db[i]]_vars
    /\ [][(lastOp = Op("app.delete", "200") /\ lastOp'.handler = "app.get"
              /\ lastInput'.id = lastInput.id) =>
             lastInput'.response.status = 404]_vars

\* C26 witness: B was deleted and the GET of B has answered 404; A is stored
\* as before.
C26_Witness ==
    /\ lastOp = Op("app.get", "404")
    /\ lastInput.id = "B"
    /\ db = <<InitialStore[1]>>

\* C26 witness of the unknown id: a PUT of a whole document for Z was answered
\* 404.
C26_WitnessUnknown ==
    /\ lastOp = Op("app.put", "404")
    /\ lastInput.id = "Z"
    /\ db = InitialStore

\* C27: the single-letter mode shortcuts do nothing while the focus is in a
\* text input: a keydown whose target is an input, a textarea or a
\* contentEditable element leaves the mode as it was (and the document and
\* the popup with its draft).
C27_ShortcutsIgnoredWhileTyping ==
    [][(lastOp'.handler = "handleKeyDown" /\ lastInput'.typingTarget) =>
          UNCHANGED <<annotationMode, currentPdf, popupVars>>]_vars

\* A pointer-up of the variant that has created annotations.
variantCreated == lastOp'.handler = "persistSelection" /\ lastOp'.branch = "create"

\* C30: in the auto-revert variant a pointer-up in highlight or underline mode
\* that creates at least one annotation sets the mode to the neutral mode in
\* the same step, and a pointer-up that creates none leaves the mode as it was.
\* Annotations are added by such a pointer-up only, so after one creation no
\* selection creates another until a toolbar button or a shortcut has chosen a
\* mode again.
C30_AutoRevert ==
    /\ [][variantCreated =>
             /\ annotationMode \in {"highlight", "underline"}
             /\ Len(annotations') > Len(annotations)
             /\ annotationMode' = "none"]_vars
    /\ [][(lastOp'.handler = "persistSelection" /\ ~variantCreated) =>
             /\ annotationMode' = annotationMode
             /\ currentPdf' = currentPdf]_vars
    /\ [][Len(annotations') > Len(annotations) => (variantCreated \/ lastOp'.handler = "fetchPdfData")]_vars
    /\ [][(annotationMode = "none" /\ annotationMode' # "none") =>
             lastOp'.handler \in {"setAnnotationMode", "handleKeyDown"}]_vars
    /\ [][(lastOp = Op("persistSelection", "create") /\ lastOp'.handler = "persistSelection") =>
             currentPdf' = currentPdf]_vars

\* C30 witness: in underline mode a selection over two pages has added two
\* annotations to the loaded document and the mode is the neutral one.
C30_Witness ==
    /\ lastOp = Op("persistSelection", "create")
    /\ lastInput = SelTwo
    /\ annotationMode = "none"
    /\ Len(annotations) = Len(DocA.annotations) + 2
    /\ annotations[Len(annotations)].type = "underline"

\* A PUT of the viewer has failed: the catch block of saveAnnotations has run.
putFailed == lastOp'.handler = "saveAnnotations" /\ lastOp'.branch = "rejected"

\* C22: when a save PUT, manual or automatic, fails, the live document and the
\* history stack are as they were, the failure message of that kind of save is
\* shown, and the failure sends no PUT and arms no timeout.  A PUT is only ever
\* sent by the Save button or by the autosave timeout, and an autosave timeout
\* is only ever armed by a change of the document: nothing is sent again on
\* its own.
C22_FailedPutKeepsState ==
    /\ [][putFailed =>
             /\ UNCHANGED <<currentPdf, historyRef, canUndo, popupVars>>
             /\ message' = (IF lastInput'.auto THEN "auto-save failed" ELSE "save failed")
             /\ message' # ""
             /\ puts' = puts
             /\ Len(requests') = Len(requests) - 1
             /\ timers' = timers]_vars
    /\ [][puts' # puts => lastOp'.handler \in {"handleSaveAnnotations", "autoSaveTimeout"}]_vars
    /\ [][(\E t \in timers' : t \notin timers /\ t.remaining = delayTicks) =>
             (currentPdf' # currentPdf /\ currentPdf # NULL)]_vars

\* C22 witness: the autosave PUT of an added annotation has failed; the
\* annotation is live, the history holds the collection of before it, the
\* failure message is shown, no request is on its way and no timeout is armed.
C22_Witness ==
    /\ lastOp = Op("saveAnnotations", "rejected")
    /\ lastInput.auto
    /\ message = "auto-save failed"
    /\ Len(log) = 1
    /\ Len(annotations) = Len(DocA.annotations) + 1
    /\ Len(historyRef) > 0
    /\ requests = <<>>
    /\ timers = {}
    /\ Len(puts) = 1

\* C23: a manual save sends its PUT, holding the live document, at once and
\* leaves the pending autosave timeout armed, so the timeout sends its PUT as
\* well.  The server handles the requests on their way in any order, and after
\* each one the stored record is the body of the request it has just handled:
\* once all are handled the record is the body of the one handled last.
C23_ManualSaveKeepsTimer ==
    /\ [][(lastOp'.handler = "handleSaveAnnotations" /\ currentPdf # NULL) =>
             /\ timers' = timers
             /\ autoSaveTimerRef' = autoSaveTimerRef
             /\ requests' = Append(requests, [id |-> currentPdf.id, body |-> stringify(currentPdf),
                                              auto |-> FALSE, response |-> NULL])]_vars
    /\ [][(lastOp'.handler = "autoSaveTimeout") =>
             /\ Len(requests') = Len(requests) + 1
             /\ requests'[Len(requests')].auto]_vars
    /\ [][(timers # {} /\ timers' = {}) => lastOp'.handler = "autoSaveTimeout"]_vars
    /\ [][(lastOp'.handler = "app.put") =>
             /\ lastInput'.response.status = 200
             /\ recordOf(db', lastInput'.id) = lastInput'.body]_vars

\* C23 witness: Save was pressed while the timeout of the first annotation was
\* pending, a second annotation was added and the timeout of that one sent
\* its PUT; the server handled the autosave first and the manual save last, so
\* the stored record holds one new annotation and the live document two.
C23_Witness ==
    /\ lastOp = Op("app.put", "200")
    /\ Len(requests) = 2
    /\ ~requests[1].auto
    /\ requests[2].auto
    /\ requests[1].response # NULL
    /\ requests[2].response # NULL
    /\ requests[1].body # requests[2].body
    /\ recordOf(db, "A") = requests[1].body
    /\ stringify(currentPdf) = requests[2].body

\* The undo shortcut pressed while the focus is in a text input.
undoShortcutWhileTyping ==
    /\ lastOp'.handler = "handleUndoShortcut"
    /\ isUndoShortcut(lastInput')
    /\ lastInput'.typingTarget

\* C28: the undo shortcut does nothing while the focus is in a text input: the
\* history is not popped, the document is as it was and the popup stays open
\* with its draft.
C28_UndoShortcutIgnoredWhileTyping ==
    [][undoShortcutWhileTyping =>
          UNCHANGED <<historyRef, canUndo, currentPdf, popupVars>>]_vars

\* The handlers that choose a mode: the toolbar buttons and the shortcuts.
modeAction == lastOp'.handler \in {"setAnnotationMode", "handleKeyDown"}

\* The mode an action asks for.
requestedMode ==
    IF lastOp'.handler = "setAnnotationMode" THEN lastOp'.branch
    ELSE CASE toLowerCase(lastInput'.key) = "h" -> "highlight"
           [] toLowerCase(lastInput'.key) = "u" -> "underline"
           [] toLowerCase(lastInput'.key) \in {"c", "0"} -> "cursor"
           [] OTHER -> annotationMode

\* C29: in the viewer with history the mode starts as cursor and changes only
\* by a toolbar button or a shortcut, which sets the mode asked for; a
\* shortcut typed into a text input and a key that is no shortcut ask for
\* nothing.  Every other step (creating annotations, undo, note commit,
\* clear-note, delete, opening and closing the popup, save and its outcome,
\* load) leaves the mode as it was.
C29_ModeChangesOnlyByModeAction ==
    /\ [](lastOp.handler = "init" => annotationMode = "cursor")
    /\ [][modeAction =>
             annotationMode' = (IF lastOp'.handler = "handleKeyDown" /\ lastInput'.typingTarget
                                THEN annotationMode ELSE requestedMode)]_vars
    /\ [][~modeAction => annotationMode' = annotationMode]_vars

\* C29 witness: in highlight mode, chosen by the shortcut, a selection has
\* added an annotation and the mode is still highlight.
C29_Witness ==
    /\ lastOp = Op("persistSelection", "create")
    /\ annotationMode = "highlight"
    /\ Len(log) = 1
    /\ steps = 3

\* C29 witness of the other handlers: after an undo, a save and its failure
\* the mode chosen before them is in force.
C29_WitnessSave ==
    /\ lastOp = Op("saveAnnotations", "rejected")
    /\ annotationMode = "underline"
    /\ undos = 1

\* A pointer-up that has added annotations to the loaded document.
selectionCreated == lastOp'.handler = "persistSelection" /\ lastOp'.branch = "create"

\* C34: one successful text selection pushes exactly one history entry, the
\* collection of before it, however often React runs the state updater that
\* performs the push; so the Undo after it brings that collection back and
\* leaves the history as it was before the selection.
C34_OneSelectionOnePush ==
    [][selectionCreated =>
          /\ historyRef' = pushHistorySnapshot(historyRef, annotations)
          /\ Len(historyRef) < HISTORY_LIMIT => SubSeq(historyRef', 1, Len(historyRef)) = historyRef]_vars

\* A step of one of the four mutations that has changed the collection.
collectionMutated ==
    \/ selectionCreated
    \/ lastOp' = Op("handleSaveNote", "changed")
    \/ lastOp' = Op("handleClearNote", "cleared")
    \/ lastOp' = Op("handleDeleteAnnotation", "deleted")

\* C33: every mutation that changes the collection (add from a selection,
\* changing note commit, clear-note, delete) leaves, as the top of the history
\* stack, a snapshot equal to the live sequence as it was before the mutation,
\* and the entries below the top are the entries of before, less the evicted
\* one; an add keeps the existing annotations in their places and puts the new
\* ones after them.  The collection changes through these steps, Undo and
\* load only.
C33_SnapshotBeforeMutation ==
    /\ [][collectionMutated =>
             /\ Len(historyRef') >= 1
             /\ historyRef'[Len(historyRef')] = annotations
             /\ annotations' # annotations
             /\ \E d \in 0..Len(historyRef) :
                   \A i \in 1..(Len(historyRef) - d) : historyRef'[i] = historyRef[i + d]]_vars
    /\ [][selectionCreated =>
             /\ Len(annotations') > Len(annotations)
             /\ SubSeq(annotations', 1, Len(annotations)) = annotations
             /\ \A i \in (Len(annotations) + 1)..Len(annotations') :
                   /\ annotations'[i].note = undefined
                   /\ \A j \in 1..Len(annotations) : annotations[j].id # annotations'[i].id]_vars
    /\ [][annotations' # annotations =>
             (collectionMutated \/ lastOp'.handler \in {"handleUndo", "fetchPdfData"})]_vars

\* C33 witness: a clear-note on a document with an earlier mutation on the
\* history has pushed the collection that still had the note.
C33_Witness ==
    /\ lastOp = Op("handleClearNote", "cleared")
    /\ Len(historyRef) >= 2
    /\ historyRef[Len(historyRef)] # annotations
    /\ Len(historyRef[Len(historyRef)]) = Len(annotations)
    /\ historyRef[Len(historyRef)] # historyRef[1]

\* The annotations the viewer holds: the live ones and those of the history
\* snapshots.
held ==
    {annotations[i] : i \in 1..Len(annotations)}
    \cup UNION {{historyRef[k][i] : i \in 1..Len(historyRef[k])} : k \in 1..Len(historyRef)}

sameShape(a, b) == a.type = b.type /\ a.pageIndex = b.pageIndex /\ a.rects = b.rects

\* C32: the type, pageIndex and rects of an annotation never change.  In every
\* state the annotations with one id, live or in a snapshot, agree on them,
\* and in every step (add, note commit, clear-note, delete, undo) each
\* annotation held after the step agrees with the ones of its id held before
\* it; only the note differs.  An id that was not held before the step comes
\* from a selection or from the load.
C32_ShapeNeverChanges ==
    /\ [](\A a \in held, b \in held : a.id = b.id => sameShape(a, b))
    /\ [][\A a \in held, b \in held' : a.id = b.id => sameShape(a, b)]_vars
    /\ [][(\E b \in held' : \A a \in held : a.id # b.id) =>
             lastOp'.handler \in {"persistSelection", "fetchPdfData"}]_vars

\* C32 witness: the annotation of the loaded document is live without its note
\* and in a snapshot with it, with the same type, page and rects.
C32_Witness ==
    /\ lastOp = Op("handleClearNote", "cleared")
    /\ \E a \in held, b \in held :
          /\ a.id = b.id
          /\ a.note # b.note
          /\ sameShape(a, b)
          /\ a.rects # <<>>

\* C35: in every state the popup's active id and its anchor position are both
\* set or both null, and while the popup is open its active id is the id of a
\* live annotation; the Undo that restores a snapshot and the Delete close the
\* popup.
C35_PopupPointsAtLiveAnnotation ==
    /\ []((activeAnnotationId = NULL) <=> (popupPosition = NULL))
    /\ [](popupShown => findAnnotation(annotations, activeAnnotationId) # NULL)
    /\ [][(lastOp' = Op("handleUndo", "restored") \/ lastOp' = Op("handleDeleteAnnotation", "deleted")) =>
             (activeAnnotationId' = NULL /\ popupPosition' = NULL)]_vars

Snapshots(history) == {history[i] : i \in 1..Len(history)}

storedIds(pdf) ==
    IF pdf = NULL THEN {}
    ELSE UNION {{doc.annotations[i].id : i \in 1..Len(doc.annotations)} :
                   doc \in {d \in Documents : d.id = pdf.id}}

allStoredIds == UNION {storedIds(doc) : doc \in Documents}

\* C39: a load leaves the history empty and canUndo false; from then on every
\* snapshot on the stack is a collection that was live after that load (a step
\* only adds the collection live before it), and an Undo restores one of
\* these, so no snapshot holds a stored annotation of another document.
C39_LoadEmptiesHistory ==
    /\ [][lastOp'.handler = "fetchPdfData" => (historyRef' = <<>> /\ canUndo' = FALSE)]_vars
    /\ [][Snapshots(historyRef') \subseteq Snapshots(historyRef) \cup {annotations}]_vars
    /\ [][lastOp' = Op("handleUndo", "restored") => annotations' \in Snapshots(historyRef)]_vars
    /\ [](\A snapshot \in Snapshots(historyRef) : \A i \in 1..Len(snapshot) :
            snapshot[i].id \in allStoredIds => snapshot[i].id \in storedIds(currentPdf))

\* A load made after the session had created an annotation.
C39_Witness ==
    /\ lastOp = Op("fetchPdfData", "loaded")
    /\ nextId > 1
    /\ historyRef = <<>>
    /\ ~canUndo

(***************************************************************************)
(* SpecPopup: the popup's handlers on the stored documents.  The Delete    *)
(* Note button is rendered only while the active annotation has a truthy   *)
(* note, and handleClearNote tests the note again itself (part_000:286-    *)
(* 287); here the callback runs in every state, so that its own guards     *)
(* decide.                                                                 *)
(***************************************************************************)
MaxPopupSteps == 6

PopupTick == steps < MaxPopupSteps /\ steps' = steps + 1 /\ UNCHANGED <<mounted, scroll>>

PopupLoad == PopupTick /\ \E doc \in Documents : fetchPdfData(doc)

PopupAnnotationClick ==
    /\ PopupTick
    /\ \E i \in 1..Len(annotations), anchorRect \in AnchorRects :
           openAnnotationPopup(annotations[i].id, anchorRect)

PopupDraftChange == PopupTick /\ popupShown /\ \E text \in NoteDrafts : setNoteDraft(text)

PopupSaveNote == PopupTick /\ popupShown /\ handleSaveNote

PopupClearNote == PopupTick /\ handleClearNote

PopupMouseDown == PopupTick /\ activeAnnotationId # NULL /\ handleOutsideClick(FALSE)

PopupUndo == PopupTick /\ canUndo /\ handleUndo

NextPopup ==
    \/ PopupLoad
    \/ PopupAnnotationClick
    \/ PopupDraftChange
    \/ PopupSaveNote
    \/ PopupClearNote
    \/ PopupMouseDown
    \/ PopupUndo

SpecPopup == Init /\ [][NextPopup]_vars

activeAnnotation == findAnnotation(annotations, activeAnnotationId)

\* C40: clear-note on an active annotation with a note pushes the collection
\* of before the change, makes the note of that annotation absent, leaves the
\* other annotations as they were, empties the draft and keeps the popup
\* open; on an annotation with no note (absent or empty) it changes nothing
\* and pushes nothing.
C40_ClearNote ==
    [][lastOp'.handler = "handleClearNote" /\ activeAnnotation # NULL =>
         IF truthy(activeAnnotation.note)
         THEN /\ historyRef' = Append(historyRef, annotations)
              /\ canUndo'
              /\ Len(annotations') = Len(annotations)
              /\ \A i \in 1..Len(annotations) :
                    annotations'[i] = IF annotations[i].id = activeAnnotationId
                                      THEN [annotations[i] EXCEPT !.note = undefined]
                                      ELSE annotations[i]
              /\ noteDraft' = <<>>
              /\ activeAnnotationId' = activeAnnotationId
              /\ popupPosition' = popupPosition
              /\ popupShown'
         ELSE UNCHANGED <<currentPdf, historyRef, canUndo, popupVars, saveVars>>]_vars

\* A note cleared in a document of two annotations, with a draft typed before.
C40_Witness ==
    /\ lastOp = Op("handleClearNote", "cleared")
    /\ popupShown
    /\ Len(annotations) >= 1
    /\ activeAnnotation # NULL
    /\ activeAnnotation.note = undefined
    /\ noteDraft = <<>>
    /\ historyRef # <<>>
    /\ truthy(findAnnotation(historyRef[Len(historyRef)], activeAnnotationId).note)

\* Clear-note run on an annotation stored with an empty note.
C40_WitnessNoNote ==
    /\ lastOp = Op("handleClearNote", "no-note")
    /\ popupShown
    /\ activeAnnotation # NULL
    /\ ~truthy(activeAnnotation.note)
    /\ historyRef = <<>>

\* C36: the body of every autosave PUT is the live document at the moment the
\* timeout fires.
C36_AutosaveSendsLiveDocument ==
    [][lastOp'.handler = "autoSaveTimeout" =>
         /\ currentPdf # NULL
         /\ puts' = Append(puts, [id |-> currentPdf.id, body |-> currentPdf, auto |-> TRUE])]_vars

(***************************************************************************)
(* SpecLive: a session that is left to settle.  The user loads document A  *)
(* from the server, adds annotations, deletes, undoes and presses Save, at *)
(* most MaxLiveSteps times in all, and then stops; the view stays mounted. *)
(* The browser runs every timeout that is due and otherwise lets the clock *)
(* run, the server handles the PUTs in the order they were sent and every  *)
(* PUT resolves: these steps are taken whenever they stay possible.        *)
(***************************************************************************)
MaxLiveSteps == 5

LiveTick == steps < MaxLiveSteps /\ steps' = steps + 1 /\ UNCHANGED <<mounted, scroll>>

LiveLoad == LiveTick /\ fetchPdfData(parse(appGet(db, "A").response.body))

LiveModeAction == LiveTick /\ annotationMode = "cursor" /\ setAnnotationMode("highlight")

LivePointerUp ==
    LiveTick /\ currentPdf # NULL /\ persistSelection(SelOne, IF strictDev THEN 2 ELSE 1)

LiveAnnotationClick ==
    /\ LiveTick
    /\ \E i \in 1..Len(annotations), anchorRect \in AnchorRects :
           openAnnotationPopup(annotations[i].id, anchorRect)

LiveDeleteAnnotation == LiveTick /\ popupShown /\ handleDeleteAnnotation

LiveUndo == LiveTick /\ canUndo /\ handleUndo

LiveSave == LiveTick /\ currentPdf # NULL /\ handleSaveAnnotations

\* The server takes the oldest request it has not answered.
LiveReceive ==
    /\ Still
    /\ \E i \in 1..Len(requests) :
           /\ \A j \in 1..(i - 1) : requests[j].response # NULL
           /\ receivePut(i)

LiveResolved == Still /\ \E i \in 1..Len(requests) : putResolved(i)

LiveElapse == Still /\ Elapse

LiveTimeout == Still /\ \E t \in timers : t.remaining = 0 /\ autoSaveTimeout(t)

LiveMessageTimeout == Still /\ messageTimeout

NextLive ==
    \/ LiveLoad
    \/ LiveModeAction
    \/ LivePointerUp
    \/ LiveAnnotationClick
    \/ LiveDeleteAnnotation
    \/ LiveUndo
    \/ LiveSave
    \/ LiveReceive
    \/ LiveResolved
    \/ LiveElapse
    \/ LiveTimeout
    \/ LiveMessageTimeout

SpecLive ==
    /\ Init
    /\ [][NextLive]_vars
    /\ WF_vars(LiveElapse)
    /\ WF_vars(LiveTimeout)
    /\ WF_vars(LiveMessageTimeout)
    /\ WF_vars(LiveReceive)
    /\ WF_vars(LiveResolved)

\* The state right after a change of the document.
justChanged ==
    \/ lastOp = Op("persistSelection", "create")
    \/ lastOp = Op("handleDeleteAnnotation", "deleted")
    \/ lastOp = Op("handleUndo", "restored")

\* The annotations the store holds for the live document.
storedAnnotations == parse(recordOf(db, currentPdf.id)).annotations

\* No timeout is pending and every request has been answered.
settledDown == timers = {} /\ \A i \in 1..Len(requests) : requests[i].response # NULL

\* C37: with the view mounted and every PUT succeeding, every change of the
\* document is followed by a PUT whose annotations are the live annotations;
\* whenever no timeout is pending and every request has been handled, in
\* sending order, the stored annotations are the live ones, and this is how
\* every session ends.
C37_ChangesReachTheStore ==
    /\ \A n \in 0..MaxLiveSteps :
          (justChanged /\ Len(puts) = n) ~>
              (Len(puts) > n /\ puts[Len(puts)].body.annotations = annotations)
    /\ [](currentPdf # NULL /\ settledDown => storedAnnotations = annotations)
    /\ <>[](currentPdf # NULL => (settledDown /\ storedAnnotations = annotations))

(***************************************************************************)
(* SpecUnmount: a session that ends.  The user loads a document, adds      *)
(* annotations and undoes, and leaves the page (the back arrow, or the     *)
(* redirect of a failed load), at most MaxUnmountSteps events in all; the  *)
(* clock runs before and after, and the browser runs a timeout that is     *)
(* due whether the view is mounted or not.                                 *)
(***************************************************************************)
MaxUnmountSteps == 5

\* A cleanup that leaves the pending timeout alone.
unmount_NoClear ==
    /\ mounted' = FALSE
    /\ lastOp' = Op("unmount", "cleanup")
    /\ lastInput' = NULL
    /\ UNCHANGED <<currentPdf, annotationMode, popupVars, historyRef, canUndo, strictDev, nextId,
                   saveVars, netVars, sinceChange, puts, ghostVars>>

\* The cleanup of the effect with no dependencies, run when the view is
\* unmounted: the timeout whose handle the ref holds is cleared (the ref keeps
\* the handle).
unmount ==
    /\ mounted' = FALSE
    /\ timers' = IF autoSaveTimerRef # NULL THEN clearTimeout(timers, autoSaveTimerRef) ELSE timers
    /\ lastOp' = Op("unmount", "cleanup")
    /\ lastInput' = NULL
    /\ UNCHANGED <<currentPdf, annotationMode, popupVars, historyRef, canUndo, strictDev, nextId,
                   skipNextAutoSaveRef, autoSaveTimerRef, netVars, sinceChange, puts, ghostVars>>

UnmountTick == steps < MaxUnmountSteps /\ steps' = steps + 1 /\ UNCHANGED <<mounted, scroll>>

UnmountLoad == UnmountTick /\ mounted /\ \E doc \in Documents : fetchPdfData(doc)

UnmountModeAction ==
    UnmountTick /\ mounted /\ annotationMode = "cursor" /\ setAnnotationMode("highlight")

UnmountPointerUp ==
    /\ UnmountTick
    /\ mounted
    /\ currentPdf # NULL
    /\ persistSelection(SelOne, IF strictDev THEN 2 ELSE 1)

UnmountUndo == UnmountTick /\ mounted /\ canUndo /\ handleUndo

UnmountLeave ==
    steps < MaxUnmountSteps /\ steps' = steps + 1 /\ mounted /\ unmount /\ UNCHANGED scroll

UnmountElapse == Still /\ Elapse

UnmountTimeout == Still /\ \E t \in timers : t.remaining = 0 /\ autoSaveTimeout(t)

NextUnmount ==
    \/ UnmountLoad
    \/ UnmountModeAction
    \/ UnmountPointerUp
    \/ UnmountUndo
    \/ UnmountLeave
    \/ UnmountElapse
    \/ UnmountTimeout

SpecUnmount == Init /\ [][NextUnmount]_vars

\* C38: the unmount leaves no autosave timeout pending, and after it no PUT is
\* issued, whatever was changed before it and however long before.
C38_NoAutosaveAfterUnmount ==
    /\ [](~mounted => timers = {})
    /\ [][~mounted' => puts' = puts]_vars
    /\ [][lastOp'.handler = "autoSaveTimeout" => mounted]_vars

\* The view was unmounted less than a second after a change, with the timeout
\* of that change pending.
C38_Witness ==
    /\ lastOp = Op("unmount", "cleanup")
    /\ ~mounted
    /\ sinceChange >= 0
    /\ sinceChange < delayTicks
    /\ autoSaveTimerRef # NULL
    /\ puts = <<>>

\* More than a second has passed since a change made before the unmount.
C38_WitnessLater ==
    /\ ~mounted
    /\ sinceChange > delayTicks
    /\ puts = <<>>
    /\ autoSaveTimerRef # NULL

(***************************************************************************)
(* The saved scroll position.  The text under the document's key of        *)
(* localStorage is a sequence of JSON tokens; JSON.parse builds the value  *)
(* or throws.  A number is a fraction or NaN.                              *)
(***************************************************************************)
Punct(c) == [punct |-> c]

NumTok(f) == [num |-> f]

StrTok(s) == [str |-> s]

Lit(w) == [lit |-> w]

\* A character that starts no JSON token.
Junk == [junk |-> TRUE]

JSUndefined == [undefined |-> TRUE]

NaN == [nan |-> TRUE]

JNum(f) == [number |-> f]

tokenAt(text, i) == IF i <= Len(text) THEN text[i] ELSE [end |-> TRUE]

isPunct(tok, c) == "punct" \in DOMAIN tok /\ tok.punct = c

SyntaxError == [ok |-> FALSE]

RECURSIVE parseValue(_, _)
RECURSIVE parseElements(_, _, _)
RECURSIVE parseMembers(_, _, _)
\* The value that starts at token i, and the place after it.
parseValue(text, i) ==
    LET tok == tokenAt(text, i)
    IN  IF "lit" \in DOMAIN tok
        THEN [ok |-> TRUE, next |-> i + 1,
              value |-> IF tok.lit = "null" THEN NULL ELSE [boolean |-> (tok.lit = "true")]]
        ELSE IF "num" \in DOMAIN tok THEN [ok |-> TRUE, next |-> i + 1, value |-> JNum(tok.num)]
        ELSE IF "str" \in DOMAIN tok THEN [ok |-> TRUE, next |-> i + 1, value |-> JStr(tok.str)]
        ELSE IF isPunct(tok, "[")
        THEN IF isPunct(tokenAt(text, i + 1), "]")
             THEN [ok |-> TRUE, next |-> i + 2, value |-> JArr(<<>>)]
             ELSE parseElements(text, i + 1, <<>>)
        ELSE IF isPunct(tok, "{")
        THEN IF isPunct(tokenAt(text, i + 1), "}")
             THEN [ok |-> TRUE, next |-> i + 2, value |-> [object |-> <<>>]]
             ELSE parseMembers(text, i + 1, <<>>)
        ELSE SyntaxError

parseElements(text, i, acc) ==
    LET r == parseValue(text, i)
    IN  IF ~r.ok THEN SyntaxError
        ELSE IF isPunct(tokenAt(text, r.next), ",")
        THEN parseElements(text, r.next + 1, Append(acc, r.value))
        ELSE IF isPunct(tokenAt(text, r.next), "]")
        THEN [ok |-> TRUE, next |-> r.next + 1, value |-> JArr(Append(acc, r.value))]
        ELSE SyntaxError

parseMembers(text, i, acc) ==
    LET key == tokenAt(text, i)
    IN  IF ~("str" \in DOMAIN key) \/ ~isPunct(tokenAt(text, i + 1), ":") THEN SyntaxError
        ELSE LET r == parseValue(text, i + 2)
             IN  IF ~r.ok THEN SyntaxError
                 ELSE LET members == Append(acc, [key |-> key.str, value |-> r.value])
                      IN  IF isPunct(tokenAt(text, r.next), ",")
                          THEN parseMembers(text, r.next + 1, members)
                          ELSE IF isPunct(tokenAt(text, r.next), "}")
                          THEN [ok |-> TRUE, next |-> r.next + 1, value |-> [object |-> members]]
                          ELSE SyntaxError

\* JSON.parse(text): the value, or a SyntaxError thrown.
JSONparse(text) ==
    LET r == parseValue(text, 1)
    IN  IF r.ok /\ r.next = Len(text) + 1
        THEN [throws |-> FALSE, value |-> r.value]
        ELSE [throws |-> TRUE]

\* value[name] of a value other than null: the last member of that name of an
\* object, undefined for a primitive and for an array (name is ratio or top).
getProperty(value, name) ==
    IF "object" \in DOMAIN value /\ \E i \in 1..Len(value.object) : value.object[i].key = name
    THEN LET last == CHOOSE i \in 1..Len(value.object) :
                         /\ value.object[i].key = name
                         /\ \A j \in (i + 1)..Len(value.object) : value.object[j].key # name
         IN  value.object[last].value
    ELSE JSUndefined

nullish(value) == value = NULL \/ value = JSUndefined

\* ToNumber.  The strings of the texts below are not numerals.
toNumber(value) ==
    IF "number" \in DOMAIN value THEN value.number
    ELSE IF "boolean" \in DOMAIN value THEN (IF value.boolean THEN Frac(1, 1) ELSE Frac(0, 1))
    ELSE IF value = NULL THEN Frac(0, 1)
    ELSE IF "string" \in DOMAIN value THEN (IF value.string = "" THEN Frac(0, 1) ELSE NaN)
    ELSE IF "array" \in DOMAIN value
    THEN IF value.array = <<>> THEN Frac(0, 1)
         ELSE IF Len(value.array) = 1 /\ "number" \in DOMAIN value.array[1]
         THEN value.array[1].number
         ELSE NaN
    ELSE NaN

times(x, n) == IF "nan" \in DOMAIN x THEN NaN ELSE Frac(x.num * n, x.den)

maxScrollOf(el) == IF el.scrollHeight - el.clientHeight > 0 THEN el.scrollHeight - el.clientHeight ELSE 0

\* el.scrollTop = x: a non-finite x counts as 0 and the element keeps the
\* position inside its scroll range.
setScrollTop(el, x) ==
    IF "nan" \in DOMAIN x \/ x.num <= 0 THEN Frac(0, 1)
    ELSE IF fracLeq(Frac(maxScrollOf(el), 1), x) THEN Frac(maxScrollOf(el), 1)
    ELSE x

\* The try block of restoreScrollPosition on the text `saved`: the scrollTop it
\* assigns, or an error thrown (the SyntaxError of the parse, the TypeError of
\* null.ratio).
restoreAttempt(saved, el) ==
    LET parsed == JSONparse(saved.text)
    IN  IF parsed.throws \/ parsed.value = NULL
        THEN [throws |-> TRUE, scrollTop |-> el.scrollTop]
        ELSE LET ratio         == getProperty(parsed.value, "ratio")
                 top           == getProperty(parsed.value, "top")
                 maxScroll     == maxScrollOf(el)
                 ratioPosition == IF ~nullish(ratio) /\ maxScroll > 0
                                  THEN JNum(times(toNumber(ratio), maxScroll))
                                  ELSE NULL
                 target        == IF ~nullish(ratioPosition) THEN ratioPosition
                                  ELSE IF ~nullish(top) THEN top
                                  ELSE JNum(Frac(0, 1))
             IN  [throws |-> FALSE, scrollTop |-> setScrollTop(el, toNumber(target))]

\* Mutant of restoreScrollPosition: no catch, the error reaches the caller.
restoreScrollPosition_NoCatch(storageKey, saved, el) ==
    IF storageKey = NULL \/ saved = NULL \/ saved.text = <<>>
    THEN [scrollTop |-> el.scrollTop, thrown |-> FALSE]
    ELSE [scrollTop |-> restoreAttempt(saved, el).scrollTop,
          thrown |-> restoreAttempt(saved, el).throws]

\* restoreScrollPosition with the text `saved` under the key (NULL: no item):
\* the element's scrollTop after the call, and whether the call threw.  The
\* catch block ignores whatever the try block throws.
restoreScrollPosition(storageKey, saved, el) ==
    IF storageKey = NULL \/ saved = NULL \/ saved.text = <<>>
    THEN [scrollTop |-> el.scrollTop, thrown |-> FALSE]
    ELSE [scrollTop |-> restoreAttempt(saved, el).scrollTop, thrown |-> FALSE]

\* JSON.stringify of handleScroll's payload.
stringifyPayload(top, ratio, updatedAt) ==
    <<Punct("{"), StrTok("top"), Punct(":"), NumTok(top), Punct(","),
      StrTok("ratio"), Punct(":"), NumTok(ratio), Punct(","),
      StrTok("updatedAt"), Punct(":"), NumTok(Frac(updatedAt, 1)), Punct("}")>>

scrollStorageKey == IF currentPdf = NULL THEN NULL ELSE [key |-> currentPdf.id]

viewerVars ==
    <<currentPdf, annotationMode, popupVars, historyRef, canUndo, strictDev, nextId, saveVars,
      netVars, ghostVars, sinceChange, puts, mounted>>

\* The restore step of the scroll effect (at attach, and 400 ms later).
restoreStep ==
    LET result == restoreScrollPosition(scrollStorageKey, scroll.saved, scroll)
    IN  /\ scroll' = [scroll EXCEPT !.scrollTop = result.scrollTop, !.thrown = result.thrown]
        /\ lastOp' = Op("restoreScrollPosition", "done")
        /\ lastInput' = [saved |-> scroll.saved, scrollTop |-> scroll.scrollTop]
        /\ UNCHANGED viewerVars

\* The scroll listener after the user has scrolled to `top`: the payload is
\* stored, unless setItem throws (quota), which is ignored.
handleScroll(top, quotaExceeded) ==
    LET el        == [scroll EXCEPT !.scrollTop = setScrollTop(scroll, top)]
        maxScroll == maxScrollOf(el)
        ratio     == IF maxScroll > 0 THEN Frac(el.scrollTop.num, el.scrollTop.den * maxScroll)
                     ELSE Frac(0, 1)
    IN  /\ scroll' = IF scrollStorageKey = NULL \/ quotaExceeded THEN el
                     ELSE [el EXCEPT !.saved = [text |-> stringifyPayload(el.scrollTop, ratio, steps)]]
        /\ lastOp' = Op("handleScroll", IF quotaExceeded THEN "quota" ELSE "stored")
        /\ lastInput' = NULL
        /\ UNCHANGED viewerVars

\* The item under the key as something else has left it: an earlier version,
\* another tab, the user.
storageWritten(saved) ==
    /\ scroll' = [scroll EXCEPT !.saved = saved]
    /\ lastOp' = Op("localStorage", "written")
    /\ lastInput' = NULL
    /\ UNCHANGED viewerVars

\* The pages are laid out again with another content height.
layout(scrollHeight) ==
    /\ scroll' = [scroll EXCEPT !.scrollHeight = scrollHeight,
                                !.scrollTop = setScrollTop([scroll EXCEPT !.scrollHeight = scrollHeight],
                                                           scroll.scrollTop)]
    /\ lastOp' = Op("layout", "resized")
    /\ lastInput' = NULL
    /\ UNCHANGED viewerVars

\* No item, the empty text, texts that are not JSON, JSON values that are not
\* objects, and objects with and without the fields.
SavedTexts ==
    {<<>>,
     <<Junk>>,
     <<Punct("{"), StrTok("top"), Punct(":")>>,
     <<Lit("null")>>,
     <<NumTok(Frac(5, 1))>>,
     <<StrTok("abc")>>,
     <<Lit("true")>>,
     <<Punct("["), NumTok(Frac(120, 1)), Punct("]")>>,
     <<Punct("{"), Punct("}")>>,
     <<Punct("{"), StrTok("top"), Punct(":"), NumTok(Frac(120, 1)), Punct("}")>>,
     <<Punct("{"), StrTok("ratio"), Punct(":"), Lit("null"), Punct(","),
       StrTok("top"), Punct(":"), StrTok("abc"), Punct("}")>>}

SavedRecords == {NULL} \cup {[text |-> text] : text \in SavedTexts}

ScrollPositions == {Frac(0, 1), Frac(300, 1), Frac(900, 1)}

ScrollHeights == {400, 1000}

(***************************************************************************)
(* SpecScroll: the saved scroll position.  The document is loaded, the     *)
(* user scrolls, the item changes under the viewer and the restore step    *)
(* runs, at most MaxScrollSteps events in all.                             *)
(***************************************************************************)
MaxScrollSteps == 4

ScrollTick == steps < MaxScrollSteps /\ steps' = steps + 1 /\ UNCHANGED <<mounted, scroll>>

ScrollStep == steps < MaxScrollSteps /\ steps' = steps + 1

ScrollLoad == ScrollTick /\ currentPdf = NULL /\ fetchPdfData(DocA)

ScrollRestore == ScrollStep /\ currentPdf # NULL /\ restoreStep

ScrollUser ==
    /\ ScrollStep
    /\ currentPdf # NULL
    /\ \E top \in ScrollPositions, quotaExceeded \in BOOLEAN : handleScroll(top, quotaExceeded)

ScrollWritten == ScrollStep /\ \E saved \in SavedRecords : storageWritten(saved)

ScrollLayout == ScrollStep /\ \E scrollHeight \in ScrollHeights : layout(scrollHeight)

NextScroll ==
    \/ ScrollLoad
    \/ ScrollRestore
    \/ ScrollUser
    \/ ScrollWritten
    \/ ScrollLayout

SpecScroll == Init /\ [][NextScroll]_vars

absentRecord(saved) == saved = NULL \/ saved.text = <<>>

notJSON(saved) == ~absentRecord(saved) /\ JSONparse(saved.text).throws

\* JSON that is not an object: null, a number, a string, a boolean, an array.
notAnObject(saved) ==
    /\ ~absentRecord(saved)
    /\ ~JSONparse(saved.text).throws
    /\ ~("object" \in DOMAIN JSONparse(saved.text).value)

jsonNull(saved) == notAnObject(saved) /\ JSONparse(saved.text).value = NULL

restored == lastOp'.handler = "restoreScrollPosition"

C31_WitnessNull ==
    /\ lastOp = Op("restoreScrollPosition", "done")
    /\ lastInput.saved = [text |-> <<Lit("null")>>]
    /\ scroll.scrollTop = lastInput.scrollTop
    /\ scroll.scrollTop # Frac(0, 1)
    /\ ~scroll.thrown

====
